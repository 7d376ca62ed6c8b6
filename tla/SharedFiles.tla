------------------------------ MODULE SharedFiles ------------------------------
(***************************************************************************)
(* A file that all processes of minicc on a machine share: the memory of   *)
(* the model, or the catalog of recent folders.  A process adds an entry   *)
(* by reading the whole file and putting another in its place, and holds   *)
(* one byte of a sidecar meanwhile.  Who does not get the byte in time     *)
(* refuses to write a memory, and writes the catalog all the same.  The    *)
(* user deletes lines of the memory by hand.                               *)
(***************************************************************************)
EXTENDS Naturals, Sequences, SequencesExt

CONSTANTS
    Processes,     \* each runs one addition at a time (_APPEND_LOCK, _lock)
    MaxItems,      \* max_items of the catalog
    MaxWrites      \* bound: additions that begin

NoHolder == "nobody"

ASSUME SharingAssumption ==
    MaxItems \in Nat \ {0} /\ MaxWrites \in Nat /\ NoHolder \notin Processes

VARIABLES
    sharing,       \* what the file is: "memory" or "catalog"
    supported,     \* the platform has a lock primitive
    shared,        \* the entries: of a memory the oldest first, of the catalog last
    byteHolder,    \* who holds the byte of the sidecar
    sharePc, entry,  \* of each process: where it is, the entry it adds ...
    copy,          \* ... and what it read
    additions,     \* additions that began
    confirmed,     \* memories that were reported as stored
    struck,        \* history: lines the user has deleted
    recent,        \* history: the folders in the order of their swaps
    loose          \* history: a catalog was written without the byte or unread

filesVars == <<sharing, supported, shared, byteHolder, sharePc, entry, copy, additions,
               confirmed, struck, recent, loose>>

Entries == 0..(MaxWrites + MaxItems)

FilesTypeOK ==
    /\ sharing \in {"memory", "catalog"} /\ {supported, loose} \subseteq BOOLEAN
    /\ {shared, recent} \subseteq Seq(Entries)
    /\ {confirmed, struck} \subseteq SUBSET Entries
    /\ byteHolder \in Processes \cup {NoHolder}
    /\ sharePc \in [Processes -> {"idle", "waiting", "reading", "staged", "swapped",
                                  "leaving"}]
    /\ entry \in [Processes -> Entries] /\ copy \in [Processes -> Seq(Entries)]
    /\ additions \in 0..MaxWrites

FilesInit ==
    /\ sharing \in {"memory", "catalog"} /\ supported \in BOOLEAN
    /\ shared = <<>> /\ byteHolder = NoHolder
    /\ sharePc = [p \in Processes |-> "idle"]
    /\ entry = [p \in Processes |-> 0] /\ copy = [p \in Processes |-> <<>>]
    /\ additions = 0 /\ confirmed = {} /\ struck = {} /\ recent = <<>> /\ loose = FALSE

Goes(p, to) == sharePc' = [sharePc EXCEPT ![p] = to]

-----------------------------------------------------------------------------
(* A line more, or the folder in front of the others. *)
WithLine(list, e)   == Append(list, e)
WithFolder(list, e) ==
    LET others == [k \in DOMAIN list |-> IF list[k] = e THEN <<>> ELSE <<list[k]>>]
        all    == <<e>> \o FlattenSeq(others)
    IN IF Len(all) > MaxItems THEN SubSeq(all, 1, MaxItems) ELSE all
Added(list, e) == IF sharing = "memory" THEN WithLine(list, e) ELSE WithFolder(list, e)

BeginAddition(p, e) ==
    /\ sharePc[p] = "idle" /\ additions < MaxWrites /\ additions' = additions + 1
    /\ entry' = [entry EXCEPT ![p] = e] /\ Goes(p, "waiting")
    /\ UNCHANGED <<sharing, supported, shared, byteHolder, copy, confirmed, struck,
                   recent, loose>>

(* MemoryTools.write, once it has read the ids there are; remember(folder). *)
Write(p) == sharing = "memory" /\ BeginAddition(p, additions + 1)
RememberFolder(p) ==
    sharing = "catalog" /\ \E folder \in 1..(MaxItems + 1) : BeginAddition(p, folder)

(* hold_sidecar: the byte is taken, ...                                    *)
TakeByte(p) ==
    /\ sharePc[p] = "waiting" /\ supported /\ byteHolder = NoHolder
    /\ byteHolder' = p /\ Goes(p, "reading")
    /\ UNCHANGED <<sharing, supported, shared, entry, copy, additions, confirmed,
                   struck, recent, loose>>

(* Mutant of RefuseWrite: a memory is written like a catalog.              *)
WriteUnheld(p) ==
    /\ sharing = "memory" /\ sharePc[p] = "waiting" /\ Goes(p, "reading")
    /\ UNCHANGED <<sharing, supported, shared, byteHolder, entry, copy, additions,
                   confirmed, struck, recent, loose>>

(* ... or stays with somebody for too long, or cannot be asked for.        *)
RefuseWrite(p) ==
    /\ sharing = "memory" /\ sharePc[p] = "waiting" /\ Goes(p, "leaving")
    /\ UNCHANGED <<sharing, supported, shared, byteHolder, entry, copy, additions,
                   confirmed, struck, recent, loose>>

WriteAnyway(p) ==
    /\ sharing = "catalog" /\ sharePc[p] = "waiting" /\ Goes(p, "reading")
    /\ loose' = TRUE
    /\ UNCHANGED <<sharing, supported, shared, byteHolder, entry, copy, additions,
                   confirmed, struck, recent>>

Read(p) ==
    /\ sharePc[p] = "reading" /\ Goes(p, "staged") /\ copy' = [copy EXCEPT ![p] = shared]
    /\ UNCHANGED <<sharing, supported, shared, byteHolder, entry, additions,
                   confirmed, struck, recent, loose>>

(* A memory that cannot be read is not written over; a catalog counts as   *)
(* empty.                                                                  *)
Unreadable(p) ==
    /\ sharePc[p] = "reading" /\ shared # <<>>
    /\ \/ sharing = "memory" /\ Goes(p, "leaving") /\ UNCHANGED loose
       \/ sharing = "catalog" /\ Goes(p, "staged") /\ loose' = TRUE
    /\ UNCHANGED <<sharing, supported, shared, byteHolder, entry, copy, additions,
                   confirmed, struck, recent>>

(* replace_with_retry: the staged file takes the place, or it cannot.      *)
Swap(p) ==
    /\ sharePc[p] = "staged"
    /\ \/ /\ shared' = Added(copy[p], entry[p]) /\ recent' = Added(recent, entry[p])
          /\ Goes(p, "swapped")
       \/ Goes(p, "leaving") /\ UNCHANGED <<shared, recent>>
    /\ copy' = [copy EXCEPT ![p] = <<>>]
    /\ UNCHANGED <<sharing, supported, byteHolder, entry, additions, confirmed,
                   struck, loose>>

(* The byte is given back, and the model is told.                          *)
Leave(p) ==
    /\ sharePc[p] \in {"swapped", "leaving"} /\ Goes(p, "idle")
    /\ byteHolder' = IF byteHolder = p THEN NoHolder ELSE byteHolder
    /\ confirmed' = IF sharing = "memory" /\ sharePc[p] = "swapped"
               THEN confirmed \cup {entry[p]} ELSE confirmed
    /\ entry' = [entry EXCEPT ![p] = 0]
    /\ UNCHANGED <<sharing, supported, shared, copy, additions, struck, recent,
                   loose>>

(* A process dies, and with its handle goes the byte.                      *)
Dies(p) ==
    /\ sharePc[p] \notin {"idle", "waiting"} /\ Goes(p, "idle")
    /\ byteHolder' = IF byteHolder = p THEN NoHolder ELSE byteHolder
    /\ copy' = [copy EXCEPT ![p] = <<>>] /\ entry' = [entry EXCEPT ![p] = 0]
    /\ UNCHANGED <<sharing, supported, shared, additions, confirmed, struck, recent,
                   loose>>

(* The user strikes out a line. *)
Strike(line) ==
    /\ sharing = "memory" /\ line \in DOMAIN shared
    /\ shared' = RemoveAt(shared, line) /\ struck' = struck \cup {shared[line]}
    /\ UNCHANGED <<sharing, supported, byteHolder, sharePc, entry, copy, additions,
                   confirmed, recent, loose>>

FilesNext ==
    \/ \E p \in Processes :
         \/ Write(p) \/ RememberFolder(p) \/ TakeByte(p) \/ RefuseWrite(p)
         \/ WriteAnyway(p) \/ Read(p) \/ Unreadable(p) \/ Swap(p) \/ Leave(p) \/ Dies(p)
    \/ \E line \in 1..MaxWrites : Strike(line)

-----------------------------------------------------------------------------
(* A memory that the model was told is stored is in the file until the     *)
(* user deletes it, whoever writes, waits, gives up or dies meanwhile; and *)
(* the catalog has the folders of all processes, the latest first, unless  *)
(* one of them had to write without the byte or could not read.            *)
EntriesKept ==
    /\ confirmed \subseteq ToSet(shared) \cup struck
    /\ sharing = "catalog" /\ ~loose => shared = recent

-----------------------------------------------------------------------------
FilesSpec == FilesInit /\ [][FilesNext]_filesVars

(* What the invariant needs of the types.                                  *)
FilesFacts ==
    /\ sharing \in {"memory", "catalog"}
    /\ sharing = "catalog" => confirmed = {}
    /\ byteHolder \in Processes \cup {NoHolder} /\ DOMAIN sharePc = Processes
    /\ DOMAIN entry = Processes /\ DOMAIN copy = Processes
    /\ sharing = "memory" =>
         /\ additions \in Nat /\ shared \in Seq(Nat)
         /\ \A p \in Processes : copy[p] \in Seq(Nat) /\ entry[p] \in Nat

(* Only who has the byte reads and writes, but for a loose catalog.        *)
ByteIsHeld ==
    \A p \in Processes :
        sharePc[p] \in {"reading", "staged", "swapped"} /\ (sharing = "catalog" => ~loose)
            => byteHolder = p

(* What is about to be put in place has what the file has; what has been   *)
(* put there is in it, before anybody is told.                             *)
SwapIsSafe ==
    \A p \in Processes :
        /\ sharePc[p] = "staged" =>
             /\ sharing = "memory" => ToSet(shared) \subseteq ToSet(copy[p])
             /\ sharing = "catalog" /\ ~loose => copy[p] = shared
        /\ sharePc[p] = "swapped" /\ sharing = "memory" =>
             entry[p] \in ToSet(shared) \cup struck

FilesInv == FilesFacts /\ ByteIsHeld /\ SwapIsSafe /\ EntriesKept
=============================================================================
