------------------------------ MODULE TraceCtl ------------------------------
(***************************************************************************)
(* Reading and setting the bitmap of a mount: the command trctl (trctl.c), *)
(* the device it opens and the ioctl behind it (tr_ioctl.c), together with *)
(* the mounts that come and go meanwhile.  The effect of a bitmap on       *)
(* logging is in TrDump.                                                   *)
(***************************************************************************)
EXTENDS TrfsMount

CONSTANTS Ctls,        \* callers of trctl
          Elsewhere,   \* a path on another file system
          Beyond,      \* a bit of a number that a bitmap has no room for
          MaxCalls     \* bound on the runs of trctl

ASSUME CallsAssumption == MaxCalls \in Nat
ASSUME CtlsAssumption == IsFiniteSet(Ctls)
ASSUME ElsewhereAssumption == Elsewhere \notin Mounts
ASSUME BeyondAssumption == Beyond \notin Bits

VARIABLES dev, devpc,  \* what the trace_ctl module has set up, and its state
          ctl,         \* the callers
          calls,       \* runs of trctl begun
          leaked,      \* references that nobody will put any more
          refused      \* history: ioctls on a path that is not on trfs

ctlvars == <<dev, devpc, ctl, calls, leaked, refused>>

\* A caller between two runs: no file descriptor, name or file of the mount.
NoCall == [at |-> "idle", cmd |-> "none", path |-> Elsewhere, typed |-> {}, bitmap |-> {},
           held |-> {}, sb |-> Elsewhere, ret |-> 0, seen |-> {}]

CtlInit ==
  /\ Init
  /\ dev = {}
  /\ devpc = "out"
  /\ ctl = [c \in Ctls |-> NoCall]
  /\ calls = 0
  /\ leaked = 0
  /\ refused = 0

-----------------------------------------------------------------------------
(* The trace_ctl module *)

\* A step of tr_ioctl_init: r is set up, or loading fails and left is left.
Setup(from, r, to, left) ==
  /\ devpc = from
  /\ \/ dev' = dev \cup {r} /\ devpc' = to
     \/ dev' = (dev \cap {"lost"}) \cup left /\ devpc' = "out"
  /\ UNCHANGED <<vars, ctl, calls, leaked, refused>>

alloc_chrdev_region == Setup("out", "region", "cdev", {})

\* After a failed cdev_add the region stays allocated, and is lost.
cdev_add == Setup("cdev", "cdev", "class", {"lost"})

\* Mutant: the cdev is not deleted.
class_create_keep == Setup("class", "class", "device", {"cdev"})

class_create  == Setup("class", "class", "device", {})
device_create == Setup("device", "device", "in", {})

\* tr_ioctl_exit, when nobody has the device open.
tr_ioctl_exit ==
  /\ devpc = "in"
  /\ \A c \in Ctls : "fd" \notin ctl[c].held
  /\ dev' = dev \ {"device", "class", "cdev", "region"}
  /\ devpc' = "out"
  /\ UNCHANGED <<vars, ctl, calls, leaked, refused>>

-----------------------------------------------------------------------------
(* trctl *)

\* The first of two arguments, other than all and none: whether it is longer
\* than 0x and 16 digits, begins with 0x and goes on with hex digits, and the
\* bits of the number it stands for.
Texts == {a \in [long : BOOLEAN, prefix : BOOLEAN, xdigits : BOOLEAN, bits : SUBSET (Bits \cup {Beyond})] :
            Beyond \in a.bits => a.long}

\* Mutant: the length is not looked at.
isvalidhexlong(a) == a.prefix /\ a.xdigits

isvalidhex(a) == ~a.long /\ a.prefix /\ a.xdigits

\* A number that does not fit an unsigned long is taken for the largest.
strtoul(bits) == IF Beyond \in bits THEN Bits ELSE bits

\* The numbers trctl may be told to set: all, none, or the one of a text.
Numbers == {Bits, {}} \cup {a.bits : a \in {x \in Texts : isvalidhex(x)}}

\* Caller c goes on at to, with its state otherwise as in r; the rest stays.
Go(c, to, r) == ctl' = [ctl EXCEPT ![c] = [r EXCEPT !.at = to]]

\* trctl parses its arguments; of a run that they end nothing is seen.  The
\* bitmap that goes with a get is what the stack held.
Main(c) ==
  /\ ctl[c].at = "idle"
  /\ calls < MaxCalls
  /\ calls' = calls + 1
  /\ \E p \in Mounts \cup {Elsewhere} :
       \/ \E b \in SUBSET Bits : Go(c, "open", [NoCall EXCEPT !.cmd = "get", !.path = p, !.bitmap = b])
       \/ \E b \in Numbers : Go(c, "open", [NoCall EXCEPT !.cmd = "set", !.path = p, !.typed = b,
                                                       !.bitmap = strtoul(b)])
  /\ UNCHANGED <<vars, dev, devpc, leaked, refused>>

\* Without the device the run ends here.
OpenDevice(c) ==
  /\ ctl[c].at = "open"
  /\ IF "device" \in dev
     THEN Go(c, "ioctl", [ctl[c] EXCEPT !.held = {"fd"}])
     ELSE ctl' = [ctl EXCEPT ![c] = NoCall]
  /\ UNCHANGED <<vars, dev, devpc, calls, leaked, refused>>

\* close and exit, with status 0 also when the ioctl failed.  References of the
\* ioctl that are left now are lost.
Close(c) ==
  /\ ctl[c].at = "close"
  /\ ctl' = [ctl EXCEPT ![c] = NoCall]
  /\ leaked' = leaked + Cardinality(ctl[c].held \ {"fd"})
  /\ refused' = refused + IF ctl[c].ret = -22 THEN 1 ELSE 0
  /\ UNCHANGED <<vars, dev, devpc, calls>>

-----------------------------------------------------------------------------
(* tr_ioctl *)

\* The ioctl fails with r, having put what is in put.
Fails(c, put, r) == Go(c, "close", [NoCall EXCEPT !.held = ctl[c].held \ put, !.ret = r])

\* copy_from_user and getname_kernel
GetName(c) ==
  /\ ctl[c].at = "ioctl"
  /\ \/ Go(c, "filp_open", [ctl[c] EXCEPT !.held = @ \cup {"name"}])
     \/ Fails(c, {}, -1)
  /\ UNCHANGED <<vars, dev, devpc, calls, leaked, refused>>

OnTrfs(p) == p \in Mounts /\ pc[p] = "mounted"

\* Mutant: the name is not put when the open fails.
FilpOpenKeep(c) ==
  /\ ctl[c].at = "filp_open"
  /\ Fails(c, {}, -1)
  /\ UNCHANGED <<vars, dev, devpc, calls, leaked, refused>>

\* filp_open: the path leads to the mount, or to what is below where it was.
\* An open file keeps its mount.
FilpOpen(c) ==
  LET p == ctl[c].path IN
  /\ ctl[c].at = "filp_open"
  /\ \/ /\ OnTrfs(p)
        /\ Go(c, "type", [ctl[c] EXCEPT !.held = @ \cup {"filp"}, !.sb = p, !.seen = {umask[p]},
                                    !.path = Elsewhere])
        /\ pins' = [pins EXCEPT ![p] = @ + 1]
     \/ /\ ~OnTrfs(p)
        /\ Go(c, "type", [ctl[c] EXCEPT !.held = @ \cup {"filp"}, !.path = Elsewhere])
        /\ UNCHANGED pins
     \/ Fails(c, {"name"}, -1) /\ UNCHANGED pins
  /\ UNCHANGED <<pc, held, tfile, umask, module, minors, files, trecord_id, ids, reset,
                 dev, devpc, calls, leaked, refused>>

\* Mutant: the file is closed as soon as its superblock is known.
CheckTypeCloses(c) ==
  /\ ctl[c].at = "type" /\ ctl[c].sb # Elsewhere
  /\ Go(c, "access", [ctl[c] EXCEPT !.held = @ \ {"filp"}])
  /\ pins' = [pins EXCEPT ![ctl[c].sb] = @ - 1]
  /\ UNCHANGED <<pc, held, tfile, umask, module, minors, files, trecord_id, ids, reset,
                 dev, devpc, calls, leaked, refused>>

\* If the type of the file system is not trfs, -EINVAL; the name and the file
\* are not put.
CheckType(c) ==
  /\ ctl[c].at = "type"
  /\ IF ctl[c].sb # Elsewhere THEN Go(c, "access", ctl[c]) ELSE Fails(c, {}, -22)
  /\ UNCHANGED <<vars, dev, devpc, calls, leaked, refused>>

\* The bitmap of mount m becomes b, which callers on the mount may see.
SetUmask(m, b, c, to) ==
  /\ umask' = [umask EXCEPT ![m] = b]
  /\ ctl' = [x \in Ctls |-> [ctl[x] EXCEPT
               !.seen = IF ctl[x].sb = m /\ "filp" \in ctl[x].held THEN @ \cup {b} ELSE @,
               !.at = IF x = c THEN to ELSE @]]

\* Mutant: a get does not fill in the answer.
AccessNoAnswer(c) ==
  /\ ctl[c].at = "access"
  /\ Go(c, "put", ctl[c])
  /\ UNCHANGED <<vars, dev, devpc, calls, leaked, refused>>

\* umask is read or set under trfs_lock.
Access(c) ==
  LET m == ctl[c].sb IN
  /\ ctl[c].at = "access"
  /\ \/ /\ ctl[c].cmd = "get"
        /\ Go(c, "put", [ctl[c] EXCEPT !.bitmap = umask[m]])
        /\ UNCHANGED umask
     \/ /\ ctl[c].cmd = "set"
        /\ SetUmask(m, ctl[c].bitmap, c, "put")
  /\ UNCHANGED <<pc, held, tfile, pins, module, minors, files, trecord_id, ids, reset,
                 dev, devpc, calls, leaked, refused>>

\* putname, filp_close
PutBoth(c) ==
  /\ ctl[c].at = "put"
  /\ Go(c, "copy", [ctl[c] EXCEPT !.held = @ \ {"name", "filp"}])
  /\ pins' = [pins EXCEPT ![ctl[c].sb] = @ - 1]
  /\ UNCHANGED <<pc, held, tfile, umask, module, minors, files, trecord_id, ids, reset,
                 dev, devpc, calls, leaked, refused>>

\* copy_to_user of a get, and the return
CopyToUser(c) ==
  /\ ctl[c].at = "copy"
  /\ \/ Go(c, "close", ctl[c])
     \/ ctl[c].cmd = "get" /\ Fails(c, {}, -1)
  /\ UNCHANGED <<vars, dev, devpc, calls, leaked, refused>>

CtlNext ==
  \/ Next /\ UNCHANGED ctlvars
  \/ alloc_chrdev_region \/ cdev_add \/ class_create \/ device_create \/ tr_ioctl_exit
  \/ \E c \in Ctls :
       \/ Main(c) \/ OpenDevice(c) \/ Close(c)
       \/ GetName(c) \/ FilpOpen(c) \/ CheckType(c) \/ Access(c) \/ PutBoth(c) \/ CopyToUser(c)

CtlSpec == CtlInit /\ [][CtlNext]_<<vars, ctlvars>>

-----------------------------------------------------------------------------
(* Properties *)

\* Types of the device and of the callers.
CtlTypeOK ==
  /\ dev \subseteq {"region", "cdev", "class", "device", "lost"}
  /\ devpc \in {"out", "cdev", "class", "device", "in"}
  /\ ctl \in [Ctls -> [at : {"idle", "open", "ioctl", "filp_open", "type", "access", "put", "copy", "close"},
                       cmd : {"none", "get", "set"}, path : Mounts \cup {Elsewhere},
                       typed : SUBSET (Bits \cup {Beyond}), bitmap : SUBSET Bits, held : SUBSET {"fd", "name", "filp"},
                       sb : Mounts \cup {Elsewhere}, ret : {0, -1, -22}, seen : SUBSET SUBSET Bits]]
  /\ calls \in 0 .. MaxCalls
  /\ leaked \in Nat /\ refused \in Nat

\* tr_ioctl keeps the superblock's address and then uses its private data: the
\* mount cannot be ended in between, because the file is closed only after
\* that (tr_ioctl.c:64, 98).
AccessOnMounted ==
  \A c \in Ctls : ctl[c].at = "access" =>
    pc[ctl[c].sb] = "mounted" /\ "sb_info" \in held[ctl[c].sb]

\* A successful get answers with a bitmap that the mount had while the call had
\* it open, and a successful set was in force in that time: never the bitmap
\* of another mount or of an earlier one at the same path.
AnswerInForce ==
  \A c \in Ctls : ctl[c].at = "close" /\ ctl[c].ret = 0 => ctl[c].bitmap \in ctl[c].seen

\* After a set that succeeded, the number that was typed was in force on the
\* mount, to the bit: isvalidhex refuses every text that strtoul would change
\* on the way to the bitmap, and no other call has changed it in between.
TypedInForce ==
  \A c \in Ctls : ctl[c].at = "close" /\ ctl[c].cmd = "set" => ctl[c].typed \in ctl[c].seen

\* Of all returns of tr_ioctl only the one for a path that is not on trfs leaves
\* references (tr_ioctl.c:55, 90), and these never keep a trfs mount in use.
LeftOnlyByRefused ==
  /\ leaked = 2 * refused
  /\ \A m \in Mounts : pins[m] = Cardinality({c \in Ctls : ctl[c].sb = m /\ "filp" \in ctl[c].held})

\* The trace_ctl module leaves nothing when loading fails or when it is unloaded,
\* but for the device number after a failed cdev_add (tr_ioctl.c:126).
DeviceClean == devpc = "out" => dev \subseteq {"lost"}

=============================================================================
