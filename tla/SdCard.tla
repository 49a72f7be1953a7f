------------------------------- MODULE SdCard -------------------------------
(***************************************************************************)
(* The sd_card library (src/sd_card.cpp, the same file in espnow_sd_test    *)
(* and codec_sdtest): a singleton mount with at most MaxFiles open handles, *)
(* exclusive creation, exact-length reads and writes, checked close.        *)
(*                                                                          *)
(* Each function is an operator that relates the state before and after the *)
(* call to the status it returns; callers must serialize their calls.       *)
(* Contents are sequences of opaque pieces.                                 *)
(***************************************************************************)
EXTENDS Integers, Sequences, FiniteSets

CONSTANTS
    Slots,          \* the callers' handle variables
    Paths,          \* the valid paths
    MaxFiles,       \* SD_CARD_MAX_FILES
    CardFaults      \* operations that may fail, "worn" if writes may be mangled

ASSUME SdCardConstants ==
    /\ MaxFiles \in Nat /\ IsFiniteSet(Slots)
    /\ CardFaults \subseteq {"mount", "unmount", "mkdir", "memory", "open", "read",
                             "write", "size", "sync", "worn"}

VARIABLES
    mounted,        \* gp_card is not null
    g_open_files,
    files,          \* what is on the card: a function on some of the paths
    handle          \* [Slots -> what the handle refers to]

cardVars == <<mounted, g_open_files, files, handle>>

NoPath == <<"none", 0>>
Null == [path |-> NoPath, writable |-> FALSE, at |-> 0]

ASSUME PathsAreNames == NoPath \notin Paths

Stray == <<"stray", 0>>

Prefixes(contents) == {SubSeq(contents, 1, n) : n \in 0..Len(contents)}
\* As much of count pieces after the first at as there is.
Slice(contents, at, count) ==
    SubSeq(contents, at + 1, IF at + count > Len(contents) THEN Len(contents) ELSE at + count)
May(fault) == fault \in CardFaults
IsOpen(slot) == handle[slot] # Null
Contents(slot) == files[handle[slot].path]

CardInit ==
    /\ mounted = FALSE /\ g_open_files = 0
    /\ handle = [slot \in Slots |-> Null]

Mount(status) ==
    /\ \/ status = "invalid_state" /\ mounted /\ mounted' = TRUE
       \/ status = "ok" /\ ~mounted /\ mounted' = TRUE
       \/ status \in {"no_memory", "io_error"} /\ ~mounted /\ May("mount") /\ mounted' = FALSE
    /\ UNCHANGED <<g_open_files, files, handle>>

\* Refused while a file is open, else repeatable.
Unmount(status) ==
    /\ \/ status = "invalid_state" /\ g_open_files # 0 /\ mounted' = mounted
       \/ status = "ok" /\ g_open_files = 0 /\ mounted' = FALSE
       \/ status = "io_error" /\ g_open_files = 0 /\ mounted /\ May("unmount") /\ mounted' = TRUE
    /\ UNCHANGED <<g_open_files, files, handle>>

\* An existing directory will do; directories are not represented.
Mkdir(status) ==
    /\ \/ status = "invalid_state" /\ ~mounted
       \/ status = "ok" /\ mounted
       \/ status = "io_error" /\ mounted /\ May("mkdir")
    /\ UNCHANGED cardVars

Openable(slot, path) ==
    path \in Paths /\ ~IsOpen(slot) /\ mounted /\ g_open_files < MaxFiles

\* A handle is given out only together with the count.
Opened(slot, path, writable) ==
    /\ handle' = [handle EXCEPT ![slot] = [path |-> path, writable |-> writable, at |-> 0]]
    /\ g_open_files' = g_open_files + 1
    /\ UNCHANGED mounted

OpenRefused(slot, path, status) ==
    /\ \/ status = "invalid_argument" /\ path \notin Paths
       \/ status = "invalid_state" /\ path \in Paths /\ ~Openable(slot, path)
       \/ status = "no_memory" /\ Openable(slot, path) /\ May("memory")
       \/ status = "io_error" /\ Openable(slot, path) /\ May("open")
    /\ UNCHANGED cardVars

\* Mutant: without O_EXCL, an existing file is opened again, truncated.
CreateOver(slot, path, status) ==
    \/ /\ status = "ok" /\ Openable(slot, path)
       /\ files' = [p \in DOMAIN files \cup {path} |-> IF p = path THEN <<>> ELSE files[p]]
       /\ Opened(slot, path, TRUE)
    \/ OpenRefused(slot, path, status)

\* O_CREAT | O_EXCL: an existing file is never opened for writing.
CreateNew(slot, path, status) ==
    \/ /\ status = "ok" /\ Openable(slot, path) /\ path \notin DOMAIN files
       /\ files' = [p \in DOMAIN files \cup {path} |-> IF p = path THEN <<>> ELSE files[p]]
       /\ Opened(slot, path, TRUE)
    \/ /\ status = "exists" /\ Openable(slot, path) /\ path \in DOMAIN files
       /\ UNCHANGED cardVars
    \/ OpenRefused(slot, path, status)

OpenRead(slot, path, status) ==
    \/ /\ status = "ok" /\ Openable(slot, path) /\ path \in DOMAIN files
       /\ files' = files
       /\ Opened(slot, path, FALSE)
    \/ /\ status = "not_found" /\ Openable(slot, path) /\ path \notin DOMAIN files
       /\ UNCHANGED cardVars
    \/ OpenRefused(slot, path, status)

\* The caller learns the pieces only with "ok"; a failed read may move on.
Read(slot, count, pieces, status) ==
    LET at == handle[slot].at
        there == Slice(Contents(slot), at, count)
    IN \/ /\ status = "ok" /\ IsOpen(slot) /\ ~handle[slot].writable
          /\ Len(there) = count /\ pieces = there
          /\ handle' = [handle EXCEPT ![slot].at = at + count]
          /\ UNCHANGED <<mounted, g_open_files, files>>
       \/ /\ status = "io_error" /\ IsOpen(slot) /\ ~handle[slot].writable
          /\ Len(there) < count \/ May("read")
          /\ pieces = <<>>
          /\ \E some \in 0..Len(there) : handle' = [handle EXCEPT ![slot].at = at + some]
          /\ UNCHANGED <<mounted, g_open_files, files>>
       \/ /\ \/ status = "invalid_argument" /\ ~IsOpen(slot)
             \/ status = "invalid_state" /\ IsOpen(slot) /\ handle[slot].writable
          /\ pieces = <<>>
          /\ UNCHANGED cardVars

\* A failed write may leave part of the data; a worn card may keep other bytes.
Write(slot, data, status) ==
    \/ /\ IsOpen(slot) /\ handle[slot].writable
       /\ \E kept \in Prefixes(data) \cup {[i \in DOMAIN data |-> Stray]} :
             /\ status = "ok" => kept = data \/ (May("worn") /\ Len(kept) = Len(data))
             /\ status = "io_error" => May("write") /\ kept # data
             /\ files' = [files EXCEPT ![handle[slot].path] = @ \o kept]
       /\ status \in {"ok", "io_error"}
       /\ UNCHANGED <<mounted, g_open_files, handle>>
    \/ /\ \/ status = "invalid_argument" /\ ~IsOpen(slot)
          \/ status = "invalid_state" /\ IsOpen(slot) /\ ~handle[slot].writable
       /\ UNCHANGED cardVars

FileSize(slot, size, status) ==
    /\ \/ status = "ok" /\ IsOpen(slot) /\ size = Len(Contents(slot))
       \/ status = "io_error" /\ IsOpen(slot) /\ May("size") /\ size = 0
       \/ status = "invalid_argument" /\ ~IsOpen(slot) /\ size = 0
    /\ UNCHANGED cardVars

\* Mutant: a close that fails keeps its place in the count.
CloseKeepsCount(slot, status) ==
    \/ status = "ok" /\ ~IsOpen(slot) /\ UNCHANGED cardVars
    \/ /\ IsOpen(slot)
       /\ \/ status = "ok" /\ files' = files /\ g_open_files' = g_open_files - 1
          \/ status = "io_error" /\ May("sync") /\ files' = files /\ g_open_files' = g_open_files
       /\ handle' = [handle EXCEPT ![slot] = Null]
       /\ UNCHANGED mounted

\* The handle and its place in the count are given back even if the flush or
\* the close fails; then the end of what was written may be lost.
Close(slot, status) ==
    \/ status = "ok" /\ ~IsOpen(slot) /\ UNCHANGED cardVars
    \/ /\ IsOpen(slot)
       /\ \/ status = "ok" /\ files' = files
          \/ /\ status = "io_error" /\ May("sync")
             /\ \E kept \in IF handle[slot].writable THEN Prefixes(Contents(slot))
                            ELSE {Contents(slot)} :
                   files' = [files EXCEPT ![handle[slot].path] = kept]
       /\ handle' = [handle EXCEPT ![slot] = Null]
       /\ g_open_files' = g_open_files - 1
       /\ UNCHANGED mounted

\* Reset or power cut: of a file still open for writing any prefix is left.
CardReset ==
    LET open == {slot \in Slots : IsOpen(slot) /\ handle[slot].writable}
    IN /\ IF open = {} THEN files' = files
          ELSE \E slot \in open, kept \in UNION {Prefixes(files[p]) : p \in DOMAIN files} :
                  /\ kept \in Prefixes(Contents(slot))
                  /\ files' = [files EXCEPT ![handle[slot].path] = kept]
       /\ mounted' = FALSE /\ g_open_files' = 0
       /\ handle' = [slot \in Slots |-> Null]

Statuses == {"ok", "invalid_argument", "invalid_state", "no_memory", "io_error",
             "exists", "not_found"}

-----------------------------------------------------------------------------

CardType ==
    /\ mounted \in BOOLEAN
    /\ handle \in [Slots -> [path : Paths \cup {NoPath}, writable : BOOLEAN, at : Nat]]
    /\ DOMAIN files \subseteq Paths

\* The count is the number of handles in the callers' hands, never above the
\* limit, and a handle is to an existing file of a mounted card.
HandlesCounted ==
    /\ g_open_files = Cardinality({slot \in Slots : IsOpen(slot)})
    /\ g_open_files <= MaxFiles
    /\ \A slot \in Slots : IsOpen(slot) => mounted /\ handle[slot].path \in DOMAIN files

\* The files open for writing.
Written == {handle[slot].path : slot \in {s \in Slots : IsOpen(s) /\ handle[s].writable}}

\* No file is removed; one that is not open for writing keeps its contents and
\* is never opened for writing again.
OnlyTheWriterWrites ==
    \A p \in DOMAIN files :
        /\ p \in DOMAIN files'
        /\ p \notin Written => files'[p] = files[p] /\ p \notin Written'
=============================================================================
