----------------------------- MODULE MCServices -----------------------------
(* The components beside the order pipeline for TLC, one at a time: `part` *)
(* is the component that runs, the others stay as they are.  The bounds    *)
(* are the constants services.cfg gives.                                   *)
EXTENDS OrderCheck, StreamPull, SdkClients, SkuMapping, ExportFiles, RowItems, TLC

CONSTANTS i1, i2, p1

\* An item whose partner's SKU is the other item's SKU, and one whose is not.
Partners2 == (i1 :> i2) @@ (i2 :> p1)

\* The letters that mean something in a token, an array or a literal, and one that does not.
ItemLetters == {"a", "2", "(", ")", ",", " ", "\"", "\\"}

VARIABLE part
Parts == {"check", "stream", "sdk", "pairs", "export", "items"}

CheckVars == <<vars, check>>

\* One of the initial states of a component that does not run.
One(S) == CHOOSE x \in S : TRUE

ServicesInit ==
    /\ part \in Parts
    /\ CheckInit
    /\ reader = ReaderIdle
    /\ dump \in (IF part = "stream" THEN NewDump ELSE {One(NewDump)})
    /\ SdkInit
    /\ listing \in (IF part = "pairs" THEN SkuListing ELSE {[s \in Stores |-> <<>>]})
    /\ mapping = {} /\ pairs = PairsIdle
    /\ listed \in (IF part = "export" THEN SUBSET Rows ELSE {{}})
    /\ export = ExportIdle /\ dir = NoFiles /\ clean = CleanIdle
    /\ order \in (IF part = "items" THEN Orders0 ELSE {<<>>})
    /\ column = <<>> /\ tokens = <<>>

NoCheck  == UNCHANGED CheckVars
NoStream == UNCHANGED StreamVars
NoSdk    == UNCHANGED SdkVars
NoPairs  == UNCHANGED PairsVars
NoExport == UNCHANGED ExportVars
NoItems  == UNCHANGED ItemsVars

ServicesNext ==
    /\ part' = part
    /\ \/ part = "check"  /\ CheckNext  /\ NoStream /\ NoSdk /\ NoPairs /\ NoExport /\ NoItems
       \/ part = "stream" /\ StreamNext /\ NoCheck /\ NoSdk /\ NoPairs /\ NoExport /\ NoItems
       \/ part = "sdk"    /\ SdkNext    /\ NoCheck /\ NoStream /\ NoPairs /\ NoExport /\ NoItems
       \/ part = "pairs"  /\ PairsNext  /\ NoCheck /\ NoStream /\ NoSdk /\ NoExport /\ NoItems
       \/ part = "export" /\ ExportNext /\ NoCheck /\ NoStream /\ NoSdk /\ NoPairs /\ NoItems
       \/ part = "items"  /\ ItemsNext  /\ NoCheck /\ NoStream /\ NoSdk /\ NoPairs /\ NoExport

ServicesVars == <<part, CheckVars, StreamVars, SdkVars, PairsVars, ExportVars, ItemsVars>>

ServicesSpec == ServicesInit /\ [][ServicesNext]_ServicesVars
=============================================================================
