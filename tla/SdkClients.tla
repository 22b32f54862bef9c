----------------------------- MODULE SdkClients -----------------------------
(***************************************************************************)
(* The HTTP clients of LingXing and DSCO (golib/v2/sdk) as the tasks use   *)
(* them.  Every run of a task makes a LingXing client of its own, which    *)
(* has no token at first and gets one at its first request; LingXing keeps *)
(* one token of the application at a time, so runs that overlap take it    *)
(* from each other.  A request is signed over its parameters and its       *)
(* answer is sorted into an error, an empty value or a value.              *)
(*                                                                         *)
(* Time is in ticks.  A token is "current", or "old" once a newer one was  *)
(* issued; a refresh token is "held", or "old" with its token.             *)
(***************************************************************************)
EXTENDS Naturals

CONSTANTS
    Clients,      \* runs that have a client
    Life,         \* ticks a token is valid (expires_in)
    Leeway,       \* TokenLeeway
    Delay,        \* time limit of one HTTP call
    TokenFaults

TokenFaultKinds == {"lost",      \* a token call is done, its answer is lost
                    "refused",   \* a token call is refused or never arrives
                    "empty",     \* a token call succeeds without a token
                    "noexpiry",  \* a token without expires_in
                    "http"}      \* a request fails on the way or with a status

ASSUME SdkAssumption ==
    /\ Life \in Nat \ {0} /\ Leeway \in Nat \ {0} /\ Delay \in Nat
    /\ Delay <= Leeway /\ Leeway <= Life
    /\ TokenFaults \subseteq TokenFaultKinds

VARIABLES issued, client
(* issued: the token LingXing issued last: to whom, and its age.           *)
(* client[c]: tok, rt, the tokens it holds; age, age of tok by its own     *)
(* clock; known, does it know when tok expires; spent, ticks since it      *)
(* looked at the clock; field, a field of its request; got, how its last   *)
(* request ended; served, was it executed.                                 *)

TokAges == 0..(Life + 2 * Delay + 1)      \* above Life: expired

Fields == {"absent", "empty", "null", "text", "other"}
Ends   == {"none", "error", "zero", "value"}

IssuedType == [to : Clients \cup {"nobody"}, age : TokAges]
ClientType == [pc : {"off", "idle", "ensure", "refresh", "get", "send"},
               tok : {"none", "current", "old"}, rt : {"none", "held", "old"},
               age : TokAges, known : BOOLEAN, spent : 0..(2 * Delay),
               field : Fields, got : Ends, served : BOOLEAN]
SdkTypeOK == issued \in IssuedType /\ client \in [Clients -> ClientType]

NewClient == [pc |-> "idle", tok |-> "none", rt |-> "none", age |-> 0, known |-> FALSE,
              spent |-> 0, field |-> "absent", got |-> "none", served |-> FALSE]

SdkInit == /\ issued = [to |-> "nobody", age |-> Life + 1]
           /\ client = [c \in Clients |-> [NewClient EXCEPT !.pc = "off"]]

TokFails(f) == f \in TokenFaults
Older(a) == IF a > Life THEN a ELSE a + 1

-----------------------------------------------------------------------------
(* LingXing's tokens *)

Calling(c) == client[c].pc \in {"refresh", "get", "send"}

\* A new token makes every other token old.
Outdate(cs) == [c \in Clients |->
                  [cs[c] EXCEPT !.tok = IF @ = "current" THEN "old" ELSE @,
                                !.rt  = IF @ = "held" THEN "old" ELSE @]]

NewToken(c) == issued' = [to |-> c, age |-> 0]

\* setTokenLocked: the clock was read before the call; without a term the
\* client will never renew the token.
Holds(c, term) == [client[c] EXCEPT !.pc = "send", !.tok = "current", !.rt = "held",
                                    !.age = client[c].spent, !.known = term, !.spent = 0]

Granted(c) == /\ NewToken(c)
              /\ \E term \in (IF TokFails("noexpiry") THEN BOOLEAN ELSE {TRUE}) :
                    client' = [Outdate(client) EXCEPT ![c] = Holds(c, term)]

-----------------------------------------------------------------------------
(* Requests *)

\* A run starts: lingxingClient makes a client without a token.
RunStart(c) == client[c].pc = "off" /\ client' = [client EXCEPT ![c] = NewClient]
RunEnd(c)   == /\ client[c].pc = "idle"
               /\ client' = [client EXCEPT ![c] = [NewClient EXCEPT !.pc = "off"]]

Request(c, f) ==
    /\ client[c].pc = "idle"
    /\ client' = [client EXCEPT ![c].pc = "ensure", ![c].field = f,
                                ![c].got = "none", ![c].served = FALSE]

\* Mutant: the token is renewed when it has expired, not before.
ShouldRefreshLate(c) == client[c].known /\ client[c].age > Life

\* shouldRefreshLocked
ShouldRefresh(c) == client[c].known /\ client[c].age + Leeway > Life

\* ensureAccessToken: keep the token, renew it, or get one.
Ensure(c) ==
    /\ client[c].pc = "ensure"
    /\ client' = [client EXCEPT
                    ![c].spent = 0,
                    ![c].pc = IF client[c].tok # "none" /\ ~ShouldRefresh(c) THEN "send"
                              ELSE IF client[c].rt # "none" THEN "refresh" ELSE "get"]
    /\ UNCHANGED issued

\* RefreshToken.  A refresh token works once; whether one of an older token
\* still works is LingXing's affair.
RefreshToken(c) ==
    /\ client[c].pc = "refresh"
    /\ \/ Granted(c)
       \/ /\ TokFails("lost") /\ NewToken(c)
          /\ client' = [Outdate(client) EXCEPT ![c].pc = "get"]
       \/ /\ TokFails("refused") \/ client[c].rt = "old"
          /\ client' = [client EXCEPT ![c].pc = "get"]
          /\ UNCHANGED issued

Ended(cs, c, end) == [cs EXCEPT ![c].pc = "idle", ![c].got = end,
                                ![c].field = "absent", ![c].spent = 0]
Failed(cs, c) == Ended(cs, c, "error")

\* GetToken, when there is no refresh token or it was of no use.
GetToken(c) ==
    /\ client[c].pc = "get"
    /\ \/ Granted(c)
       \/ /\ TokFails("lost") /\ NewToken(c)
          /\ client' = Failed(Outdate(client), c)
       \/ /\ TokFails("refused") /\ UNCHANGED issued
          /\ client' = Failed(client, c)
       \/ /\ TokFails("empty") /\ UNCHANGED issued
          /\ client' = [client EXCEPT ![c] =
                          IF @.tok = "none" THEN Failed(client, c)[c]
                          ELSE [@ EXCEPT !.pc = "send", !.known = FALSE, !.spent = 0]]

-----------------------------------------------------------------------------
(* Signatures *)

\* LingXing signs what it finds in the body: an empty value does not count,
\* a null does.
SignedByServer(f) == IF f \in {"absent", "empty"} THEN "nothing" ELSE f

\* bodyToSignParams, over the JSON text to be sent: the fields it has.
BodyToSignParams(f) == IF f = "absent" THEN "nothing" ELSE f

\* Mutant: a null does not count.
NormalizeSignValueNoNull(v) == IF v \in {"empty", "null"} THEN "nothing" ELSE v

\* normalizeSignValue: an empty text is left out, a null is "null".
NormalizeSignValue(v) == IF v = "empty" THEN "nothing" ELSE v

\* buildSignParams, buildSignPlain
SignedByClient(f) == NormalizeSignValue(BodyToSignParams(f))

Accepted(c) == /\ client[c].tok = "current" /\ issued.age <= Life
               /\ SignedByClient(client[c].field) = SignedByServer(client[c].field)

-----------------------------------------------------------------------------
(* Answers: the HTTP exchange, the code in the envelope ("none": it cannot *)
(* be read) and the data, which may be absent or of another form.          *)

Data == {"full", "null", "odd"}
Answer(http, code, data) == [http |-> http, code |-> code, data |-> data]

\* What the data of an answer without an error is to the caller.
Value(data) == CASE data = "null" -> "zero"
                 [] data = "odd"  -> "error"
                 [] data = "full" -> "value"

\* Mutant: the code in the envelope is not looked at.
DecodeAnyCode(a) == IF a.http # "fine" \/ a.code = "none" THEN "error" ELSE Value(a.data)

\* doAndDecode: LingXing tells an error by the code, under HTTP status 200.
Decode(a) == IF a.http # "fine" \/ a.code # "ok" THEN "error" ELSE Value(a.data)

\* do: DSCO tells an error by the status; an empty body is an empty value.
DecodeDsco(a) == IF a.http # "fine" THEN "error" ELSE Value(a.data)

Answered(c, served, a) == client' = [Ended(client, c, Decode(a)) EXCEPT ![c].served = served]

\* The request is executed, refused, or fails before or after it was executed.
Send(c) ==
    /\ client[c].pc = "send"
    /\ \/ Accepted(c)  /\ \E d \in Data : Answered(c, TRUE, Answer("fine", "ok", d))
       \/ ~Accepted(c) /\ Answered(c, FALSE, Answer("fine", "refused", "null"))
       \/ /\ TokFails("http")
          /\ \E served \in {FALSE, Accepted(c)}, http \in {"none", "status", "fine"} :
                Answered(c, served, Answer(http, "none", "null"))
    /\ UNCHANGED issued

\* A request to DSCO, whose token never changes.
SendDsco(c) ==
    /\ client[c].pc = "idle"
    /\ \E served \in BOOLEAN :
          \E d \in Data, http \in (IF served THEN {"fine", "none"} ELSE {"none", "status"}) :
             client' = [client EXCEPT ![c].got = DecodeDsco(Answer(http, "none", d)),
                                      ![c].served = served]
    /\ UNCHANGED issued

\* A call in flight has a time limit.
InTime(c) == client[c].spent < (IF client[c].pc = "get" /\ client[c].rt # "none"
                                THEN 2 * Delay ELSE Delay)
Tick == /\ \A c \in Clients : Calling(c) => InTime(c)
        /\ issued' = [issued EXCEPT !.age = Older(@)]
        /\ client' = [c \in Clients |->
              [client[c] EXCEPT !.age = IF client[c].tok = "none" THEN @ ELSE Older(@),
                                !.spent = IF Calling(c) THEN @ + 1 ELSE @]]

SdkNext ==
    \/ \E c \in Clients :
          \/ (RunStart(c) \/ RunEnd(c) \/ \E f \in Fields : Request(c, f)) /\ UNCHANGED issued
          \/ Ensure(c) \/ RefreshToken(c) \/ GetToken(c) \/ Send(c) \/ SendDsco(c)
    \/ Tick

SdkVars == <<issued, client>>
SdkSpec == SdkInit /\ [][SdkNext]_SdkVars

-----------------------------------------------------------------------------
(* Properties *)

\* The run that got LingXing's last token is served: while no other run
\* takes the token away, a request leaves with the current token, which is
\* still valid when it arrives, and with the signature LingXing computes,
\* also after answers of token calls were lost and refresh tokens were
\* spent.  It takes a client that was told when its token expires.
LastTokenServes ==
    \A c \in Clients :
        client[c].pc = "send" /\ issued.to = c /\ client[c].known => Accepted(c)

\* A request that was not executed is never taken for an answer: a run
\* whose token another run took away sees errors, not "no such order".
RefusalIsError ==
    \A c \in Clients : client[c].got \in {"zero", "value"} => client[c].served
=============================================================================
