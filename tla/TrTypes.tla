------------------------------ MODULE TrTypes ------------------------------
(***************************************************************************)
(* The trace record of trfs (tr_types.h) and the size arithmetic of        *)
(* fill_record (trdump.c), with the C widths: the size fields are shorts.  *)
(* Sizes are the ones of the x86-64 build.                                 *)
(***************************************************************************)
EXTENDS Integers

\* The record types some operation emits; TR_FREAD and TR_DREAD are never
\* passed to fill_record.  The bitmap umask is a set of types.
rec_type_t == {"FCREAT", "FWRITE", "DCREAT", "RENAME", "LINK", "SYMLINK", "UNLINK"}

\* The types whose record carries auxiliary data: the switch of fill_record
\* sets record->aux for these and leaves it NULL for the others.
AuxTypes == {"FWRITE", "RENAME", "LINK", "SYMLINK"}

\* Types whose aux points into the page that fill_record allocated; for
\* FWRITE it is the caller's buffer and for SYMLINK the caller's symname.
AuxPageTypes == {"RENAME", "LINK"}

\* sizeof(struct tr_record) less its two trailing pointers: what is written
\* of the struct itself.
RecHeader == 32

\* PAGE_SIZE: bounds a path built by dentry_path_raw.
PageSize == 4096

\* Mutant: the fields as wide as an int.
ShortAsInt(n) == n

\* Conversion of an int to a 16-bit short.
Short(n) == ((n + 32768) % 65536) - 32768

ShortInt == -32768 .. 32767

tr_record == [rec_id : Nat, type : rec_type_t, path_len : ShortInt,
              aux_len : ShortInt, rec_size : ShortInt]

\* RECORD_SIZE and RECORD_SIZE_AUX before their assignment to a short; the
\* two agree because aux_len is 0 (memset) for the types without aux.
RECORD_SIZE(path_len, aux_len) == RecHeader + path_len + aux_len

\* The record fill_record builds: the lengths of the path and of the aux
\* data are ints and every field that receives one is a short.
MakeRecord(id, type, plen, alen) ==
  LET path_len == Short(plen)
      aux_len  == Short(alen)
  IN [rec_id   |-> id,       type    |-> type,
      path_len |-> path_len, aux_len |-> aux_len,
      rec_size |-> Short(RECORD_SIZE(path_len, aux_len))]

\* Mutant: the aux data counted as part of the struct.
RecSizeCommonAux(r) == Short(r.rec_size - r.path_len)

\* append_record's rec_size_common, a short computed from shorts.
RecSizeCommon(r) == Short(r.rec_size - r.path_len - r.aux_len)

\* The byte count of append_record's first kernel_write, an int.
HeadLen(r) == r.rec_size - r.aux_len
=============================================================================
