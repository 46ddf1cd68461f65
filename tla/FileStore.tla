---------------------------- MODULE FileStore ----------------------------
(***************************************************************************)
(* What the API of src/file-systems-2004joshua-main/fs.c promises its      *)
(* caller, with no disk, bitmap, inode or block pointer: a flat directory  *)
(* of named files, each a sequence of cells, and a table of descriptors,   *)
(* each open on a file at an offset.                                       *)
(*   - fs_create adds an empty file under a new name while there is room;  *)
(*   - fs_open opens a descriptor on a file at offset 0;                   *)
(*   - fs_write writes cells at the offset and moves it past them; it may  *)
(*     write fewer than asked (the disk or the file is full);              *)
(*   - fs_read returns the file's cells from the offset, at most n and     *)
(*     none past the end, and moves the offset past them;                  *)
(*   - fs_lseek moves the offset anywhere up to the end of the file;       *)
(*   - fs_truncate cuts the file, and pulls this descriptor's offset back; *)
(*   - fs_delete removes a file no descriptor is open on;                  *)
(*   - unmounting and mounting again keep every file.                      *)
(* FS refines this module (FS!ImplementsFileStore).                        *)
(***************************************************************************)
EXTENDS Integers, Sequences, FiniteSets, FiniteSetsExt

CONSTANTS
    Names, MaxFiles, Fildes, NoName,
    Vals,      \* the cell values callers write
    MaxWrite,  \* largest count a caller writes
    MaxRead    \* largest count a caller reads

VARIABLES
    mounted,  \* the file system is mounted
    exists,   \* the names of the files
    data,     \* each name's cells (<<>> for a name with no file)
    open,     \* each descriptor: used, the file's name, the offset
    out       \* the cells the last fs_read returned

fsvars == <<mounted, exists, data, open, out>>

Closed == [used |-> FALSE, name |-> NoName, offset |-> 0]

(* f with cnt copies of v from offset o on, grown as needed. *)
Written(f, o, cnt, v) ==
    [x \in 1 .. Max({Len(f), o + cnt}) |->
        IF o < x /\ x <= o + cnt THEN v ELSE IF x <= Len(f) THEN f[x] ELSE 0]

(* the cells of f a read of n at offset o returns *)
Slice(f, o, n) == IF o >= Len(f) THEN <<>> ELSE SubSeq(f, o + 1, Min({o + n, Len(f)}))

Init ==
    /\ mounted = FALSE
    /\ exists = {}
    /\ data = [nm \in Names |-> <<>>]
    /\ open = [d \in Fildes |-> Closed]
    /\ out = <<>>

(* In each action the conjuncts on the descriptors and the directory come  *)
(* before those on the cells, which are the costly part of the mapping.   *)
Mount ==
    /\ ~mounted
    /\ mounted' = TRUE
    /\ UNCHANGED <<exists, open, out, data>>

Umount ==
    /\ mounted
    /\ mounted' = FALSE
    /\ UNCHANGED <<exists, open, out, data>>

Create(nm) ==
    /\ mounted /\ nm \notin exists /\ Cardinality(exists) < MaxFiles
    /\ exists' = exists \cup {nm}
    /\ UNCHANGED <<mounted, open, out>>
    /\ data' = [data EXCEPT ![nm] = <<>>]

Delete(nm) ==
    /\ mounted /\ nm \in exists
    /\ \A d \in Fildes : ~(open[d].used /\ open[d].name = nm)
    /\ exists' = exists \ {nm}
    /\ UNCHANGED <<mounted, open, out>>
    /\ data' = [data EXCEPT ![nm] = <<>>]

Open(nm, d) ==
    /\ mounted /\ nm \in exists /\ ~open[d].used
    /\ open' = [open EXCEPT ![d] = [used |-> TRUE, name |-> nm, offset |-> 0]]
    /\ UNCHANGED <<mounted, exists, out, data>>

Close(d) ==
    /\ mounted /\ open[d].used
    /\ open' = [open EXCEPT ![d] = Closed]
    /\ UNCHANGED <<mounted, exists, out, data>>

Seek(d, off) ==
    /\ mounted /\ open[d].used
    /\ open' = [open EXCEPT ![d].offset = off]
    /\ UNCHANGED <<mounted, exists, out>>
    /\ off <= Len(data[open[d].name])
    /\ UNCHANGED data

Write(d, n, v) ==
    /\ mounted /\ open[d].used
    /\ UNCHANGED <<mounted, exists, out>>
    /\ \E w \in 0 .. n :
          LET nm == open[d].name
              o == open[d].offset
          IN  /\ open' = [open EXCEPT ![d].offset = o + w]
              /\ data' = [data EXCEPT ![nm] = Written(@, o, w, v)]

Read(d, n) ==
    /\ mounted /\ open[d].used
    /\ UNCHANGED <<mounted, exists>>
    /\ LET got == Slice(data[open[d].name], open[d].offset, n)
       IN  /\ out' = got
           /\ open' = [open EXCEPT ![d].offset = @ + Len(got)]
    /\ UNCHANGED data

Truncate(d, len) ==
    /\ mounted /\ open[d].used
    /\ UNCHANGED <<mounted, exists, out>>
    /\ open' = [open EXCEPT ![d].offset = Min({@, len})]
    /\ len \in 0 .. Len(data[open[d].name])
    /\ data' = [data EXCEPT ![open[d].name] = SubSeq(@, 1, len)]

Next ==
    \/ Mount \/ Umount
    \/ \E nm \in Names : Create(nm) \/ Delete(nm) \/ \E d \in Fildes : Open(nm, d)
    \/ \E d \in {x \in Fildes : open[x].used} :
          \/ Close(d)
          \/ \E off \in 0 .. Len(data[open[d].name]) : Seek(d, off) \/ Truncate(d, off)
          \/ \E n \in 0 .. MaxWrite, v \in Vals : Write(d, n, v)
          \/ \E n \in 0 .. MaxRead : Read(d, n)

(* The stuttering case is tried first: most steps of an implementation    *)
(* leave what a caller sees unchanged.                                    *)
Spec == Init /\ [][UNCHANGED fsvars \/ Next]_fsvars
====
