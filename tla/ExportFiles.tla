---------------------------- MODULE ExportFiles ----------------------------
(***************************************************************************)
(* The console's CSV exports (admin/api.go) and the job cleanup_exports    *)
(* (integration/ops, infra/fileutil).  An export reads a table page by     *)
(* page, by offset, while tasks write it, into a temporary file that is    *)
(* renamed at the end; the job deletes the oldest files of the directory,  *)
(* whoever may be writing or reading them.                                 *)
(*                                                                         *)
(* A row is its number.  Orders are listed by creation time and id, so     *)
(* every row has a place of its own; stock rows by sync_time alone, the    *)
(* newest first, and the rows of one batch share it.  A file is as large   *)
(* as the rows in it.                                                      *)
(***************************************************************************)
EXTENDS Naturals, FiniteSets

CONSTANTS
    Rows,            \* row numbers, a set 1..n
    ExportPage,      \* rows per page (500)
    Threshold,       \* size the directory may have (cleanup_threshold_bytes)
    MaxFiles,        \* files made by exports
    ExportFaults

ExportFaultKinds == {"read",    \* a page cannot be read: the file is given up
                     "crash",   \* the process stops while a file is written
                     "remove"}  \* a file cannot be removed
ASSUME ExportAssumption ==
    /\ Rows \subseteq Nat /\ IsFiniteSet(Rows) /\ ExportPage \in Nat \ {0}
    /\ Threshold \in Nat \ {0} /\ MaxFiles \in Nat
    /\ ExportFaults \subseteq ExportFaultKinds

VARIABLES listed, export, dir, clean
(* listed: the rows that are in the table and match the filter.            *)
(* export: kind, the table; offset; got, rows written; base, rows listed   *)
(* when it began; total, rows counted for the page; left, a row left the   *)
(* filter since; slip, a row came before others between a count and its    *)
(* page; id, its file.                                                     *)
(* dir: the files by number: exports run one after the other, so the file  *)
(* with the lower number is the older one.                                 *)
(* clean: walk, files found and not looked at yet; total, what the job     *)
(* thinks is there; gone, files it removed; busy, an export changed the    *)
(* directory meanwhile; failed, a removal did.                             *)

FileIds == 1..MaxFiles
NoFile  == [name |-> "none", size |-> 0]
File    == {NoFile} \cup [name : {"tmp", "csv"}, size : Nat]
NoFiles == [i \in FileIds |-> NoFile]
Present(files) == {i \in FileIds : files[i].name # "none"}

SizeOf(files) ==
    LET S[i \in 0..MaxFiles] == IF i = 0 THEN 0 ELSE S[i - 1] + files[i].size
    IN S[MaxFiles]

ExportIdle == [pc |-> "idle", kind |-> "orders", offset |-> 0, got |-> {}, base |-> {},
               total |-> 0, left |-> FALSE, slip |-> FALSE, id |-> 0]
CleanIdle  == [pc |-> "idle", walk |-> NoFiles, total |-> 0, gone |-> NoFiles,
               busy |-> FALSE, failed |-> FALSE]

ExportTypeOK ==
    /\ listed \subseteq Rows
    /\ export \in [pc : {"idle", "count", "page", "done"}, kind : {"orders", "stock"},
                   offset : Nat, got : SUBSET Rows, base : SUBSET Rows, total : Nat,
                   left : BOOLEAN, slip : BOOLEAN, id : 0..MaxFiles]
    /\ dir \in [FileIds -> File]
    /\ clean \in [pc : {"idle", "remove", "done"}, walk : [FileIds -> File], total : Nat,
                  gone : [FileIds -> File], busy : BOOLEAN, failed : BOOLEAN]

ExportInit == listed \in SUBSET Rows /\ export = ExportIdle /\ dir = NoFiles /\ clean = CleanIdle

-----------------------------------------------------------------------------
(* The tables *)

Exporting == export.pc \in {"count", "page"}

\* The sort key: a row of its own, or the batch the row was inserted with.
KeyOf(kind, r) == IF kind = "orders" THEN r ELSE (r + 1) \div 2
Earlier(kind, r, s) == IF kind = "orders" THEN r < s
                       ELSE KeyOf(kind, r) > KeyOf(kind, s)

\* Rows come during an export: an order with any creation time, stock rows as the newest.
RowComes(r) ==
    /\ Exporting /\ r \notin listed
    /\ export.kind = "stock" => \A s \in listed : s < r
    /\ listed' = listed \cup {r}
    /\ export' = [export EXCEPT
         !.slip = @ \/ (export.pc = "page" /\ \E s \in listed : ~Earlier(export.kind, s, r))]
    /\ UNCHANGED <<dir, clean>>

\* A task moves an order out of the status that is asked for.
RowLeaves(r) ==
    /\ Exporting /\ export.kind = "orders" /\ r \in listed
    /\ listed' = listed \ {r}
    /\ export' = [export EXCEPT !.left = TRUE]
    /\ UNCHANGED <<dir, clean>>

\* Mutant: the pages of the order export are sorted by nothing.
PagesUnsorted(kind, offset) ==
    {p \in SUBSET listed :
        Cardinality(p) = (IF Cardinality(listed) - offset < ExportPage
                          THEN Cardinality(listed) - offset ELSE ExportPage)}

\* ListByCreateTimeAsc, List: the rows behind the first `offset` ones, in an
\* order that is any of those the sort allows, for each page anew.
Pages(kind, offset) ==
    LET n == Cardinality(listed)
        m == IF n - offset < ExportPage THEN n - offset ELSE ExportPage
        Upto(front, rest) == \A r \in front, s \in rest : ~Earlier(kind, s, r)
    IN IF n <= offset THEN {{}}
       ELSE {p \in SUBSET listed :
               /\ Cardinality(p) = m
               /\ \E b \in SUBSET (listed \ p) :
                     /\ Cardinality(b) = offset
                     /\ Upto(b, listed \ b) /\ Upto(p, listed \ (b \cup p))}

-----------------------------------------------------------------------------
(* An export *)

Disturbed == [clean EXCEPT !.busy = clean.pc # "idle"]

\* apiExportOrders, apiExportWarehouseSync: the temporary file is made first.
ExportStart(kind) ==
    /\ export.pc \in {"idle", "done"} /\ export.id < MaxFiles
    /\ export' = [ExportIdle EXCEPT !.pc = "count", !.kind = kind, !.base = listed,
                                    !.id = export.id + 1]
    /\ dir' = [dir EXCEPT ![export.id + 1] = [name |-> "tmp", size |-> 0]]
    /\ clean' = Disturbed
    /\ UNCHANGED listed

Kept == export.id \in Present(dir)

\* The rows are counted ...
ExportCount ==
    /\ export.pc = "count"
    /\ export' = [export EXCEPT !.pc = "page", !.total = Cardinality(listed)]
    /\ UNCHANGED <<listed, dir, clean>>

\* ... and a page is written; the last one is the one that reaches the count,
\* or an empty one.  Then the file gets its name, unless the job has removed it.
ExportPageRead ==
    /\ export.pc = "page"
    /\ \E p \in Pages(export.kind, export.offset) :
          LET next == export.offset + Cardinality(p)
              last == p = {} \/ next >= export.total
              file == [name |-> IF last THEN "csv" ELSE "tmp", size |-> next]
          IN /\ export' = IF last /\ ~Kept THEN [ExportIdle EXCEPT !.id = export.id]
                          ELSE [export EXCEPT !.got = @ \cup p, !.offset = next, !.total = 0,
                                              !.pc = IF last THEN "done" ELSE "count"]
             /\ dir' = IF Kept THEN [dir EXCEPT ![export.id] = file] ELSE dir
    /\ clean' = Disturbed
    /\ UNCHANGED listed

\* The query fails and the file is removed, or the process stops and it stays.
ExportFails ==
    /\ Exporting
    /\ \/ "read" \in ExportFaults /\ dir' = [dir EXCEPT ![export.id] = NoFile] /\ clean' = Disturbed
       \/ "crash" \in ExportFaults /\ clean' = CleanIdle /\ UNCHANGED dir
    /\ export' = [ExportIdle EXCEPT !.id = export.id]
    /\ UNCHANGED listed

-----------------------------------------------------------------------------
(* cleanup_exports *)

\* CleanupDirByOldest looks at all files first.
CleanStart ==
    /\ clean.pc \in {"idle", "done"}
    /\ clean' = IF SizeOf(dir) <= Threshold THEN CleanIdle
                ELSE [CleanIdle EXCEPT !.pc = "remove", !.walk = dir, !.total = SizeOf(dir)]
    /\ UNCHANGED <<listed, export, dir>>

\* os.Remove by the path that was found: a file that got its name since has another.
Removed(i) == IF dir[i].name = clean.walk[i].name THEN [dir EXCEPT ![i] = NoFile] ELSE dir

\* Mutant: the newest files go first.
CleanRemoveNewest ==
    /\ clean.pc = "remove" /\ clean.total > Threshold
    /\ \E i \in Present(clean.walk) :
          /\ \A j \in Present(clean.walk) : j <= i
          /\ dir' = Removed(i)
          /\ clean' = [clean EXCEPT !.walk[i] = NoFile, !.total = @ - clean.walk[i].size,
                                    !.gone[i] = clean.walk[i]]
    /\ UNCHANGED <<listed, export>>

\* The oldest file is removed.  A file that is there no more, or under
\* another name, counts as removed; one that cannot be removed is passed over.
CleanRemove ==
    /\ clean.pc = "remove" /\ clean.total > Threshold
    /\ \E i \in Present(clean.walk) :
          /\ \A j \in Present(clean.walk) : i <= j
          /\ \/ /\ dir' = Removed(i)
                /\ clean' = [clean EXCEPT !.walk[i] = NoFile, !.total = @ - clean.walk[i].size,
                                          !.gone[i] = clean.walk[i]]
             \/ /\ "remove" \in ExportFaults /\ UNCHANGED dir
                /\ clean' = [clean EXCEPT !.walk[i] = NoFile, !.failed = TRUE]
    /\ UNCHANGED <<listed, export>>

CleanEnd ==
    /\ clean.pc = "remove" /\ (Present(clean.walk) = {} \/ clean.total <= Threshold)
    /\ clean' = [clean EXCEPT !.pc = "done", !.walk = NoFiles, !.total = 0]
    /\ UNCHANGED <<listed, export, dir>>

-----------------------------------------------------------------------------
ExportNext ==
    \/ \E r \in Rows : RowComes(r) \/ RowLeaves(r)
    \/ \E kind \in {"orders", "stock"} : ExportStart(kind)
    \/ ExportCount \/ ExportPageRead \/ ExportFails
    \/ CleanStart \/ CleanRemove \/ CleanEnd

ExportVars == <<listed, export, dir, clean>>
ExportSpec == ExportInit /\ [][ExportNext]_ExportVars

-----------------------------------------------------------------------------
(* Properties *)

\* An export misses no row that it could have written: of the rows listed
\* when it began, all that have a place of their own in the sort are in it,
\* although rows came between its pages, unless a row left the filter, which
\* moves the later ones past the offset, or one came between a count and its
\* page, which makes the count too small.
ExportComplete ==
    export.pc = "done" /\ ~export.left /\ ~export.slip =>
        \A r \in export.base :
            (\A s \in listed \ {r} : KeyOf(export.kind, s) # KeyOf(export.kind, r))
                => r \in export.got

\* The job removes what it must and no more: if no export was writing
\* meanwhile and every removal worked, the directory is within its limit,
\* would not be without the last removal, and what remains is newer than
\* what went.
CleanEnough ==
    clean.pc = "done" /\ ~clean.busy /\ ~clean.failed =>
        /\ SizeOf(dir) <= Threshold
        /\ \E last \in Present(clean.gone) :
              /\ SizeOf(dir) + clean.gone[last].size > Threshold
              /\ \A j \in Present(clean.gone) : j <= last
              /\ \A i \in Present(dir) : i > last
=============================================================================
