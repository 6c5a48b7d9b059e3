---------------------------- MODULE WorkspaceProofs ----------------------------
(***************************************************************************)
(* What Workspace promises, for any number of connections and tool calls,  *)
(* any exclusions and any transfer limit.                                  *)
(***************************************************************************)
EXTENDS Workspace, FiniteSetTheorems, TLAPS

BuyerShape ==
    /\ session \in {"active", "ended"} /\ held \in BOOLEAN /\ mayWrite \in BOOLEAN
    /\ exclusions \subseteq Reqs
    /\ joining \in {"idle", "uid", "waiting", "ok", "failed"}
    /\ blink \in {"off", "down", "up"} /\ serving \in BOOLEAN /\ keepalive \in BOOLEAN
    /\ handling \in [Reqs -> {"none", "asking", "done", "refused", "silent"}]
WireShape == toBuyer \subseteq Reqs /\ toSeller \subseteq Reqs \X BOOLEAN

\* Every executed call is counted once.
Counted == transferred = Cardinality(Executed)

\* Nothing is served before the workspace has its socket, which is when the
\* exclusions and the permission are settled.
Unserved == joining \in {"idle", "uid"} => blink = "off" /\ \A r \in Reqs : handling[r] = "none"

\* What passed the checks keeps what they found, at the write gate too.
GrantsKept ==
    \A r \in Reqs : handling[r] \in {"asking", "done"} =>
        r \notin exclusions /\ (r \in Writes => mayWrite)

\* Results on their way, and promises settled by them, say what happened.
AnswersTrue ==
    \A r \in Reqs :
        /\ <<r, TRUE>> \in toSeller \/ toolCall[r] = "resolved" => handling[r] = "done"
        /\ <<r, FALSE>> \in toSeller \/ toolCall[r] = "refused" => handling[r] = "refused"

\* A connect() without an answer to its request for a token has no socket.
Undialled == \A c \in Dials : conn[c] \in {"idle", "token"} => line[c] = "off"

SellerGood == SellerTypeOK /\ Undialled /\ ConnectedIsReal

IInv == /\ SellerGood /\ BuyerShape /\ WireShape /\ Counted /\ Unserved /\ GrantsKept
        /\ AnswersTrue /\ ServingIsReal

-----------------------------------------------------------------------------
LEMMA InitInv == WorkspaceInit => IInv
<1> SUFFICES ASSUME WorkspaceInit PROVE IInv OBVIOUS
<1> USE DEF WorkspaceInit, SellerInit, BuyerInit
<1>1. SellerGood
  BY DEF SellerGood, SellerTypeOK, ConnSteps, LineStates, Promises, Undialled, ConnectedIsReal
<1>2. BuyerShape /\ WireShape BY DEF BuyerShape, WireShape
<1>3. Counted
  <2>1. Executed = {} BY DEF Executed
  <2> QED BY <2>1, FS_EmptySet DEF Counted
<1>4. Unserved /\ GrantsKept /\ AnswersTrue BY DEF Unserved, GrantsKept, AnswersTrue
<1>5. ServingIsReal BY DEF ServingIsReal
<1> QED BY <1>1, <1>2, <1>3, <1>4, <1>5 DEF IInv

\* What a step of the seller has to keep when it leaves the buyer and the wire.
LEMMA SellerKeeps ==
    ASSUME IInv, UNCHANGED <<buyerVars, wireVars>>, SellerGood',
           \A r \in Reqs : toolCall'[r] \in {"resolved", "refused"} => toolCall'[r] = toolCall[r]
    PROVE  IInv'
<1> USE DEF IInv, buyerVars, wireVars, sessionVars, grantVars, socketVars
<1>1. BuyerShape' /\ WireShape' BY DEF BuyerShape, WireShape
<1>2. Counted' BY DEF Counted, Executed
<1>3. Unserved' /\ GrantsKept' BY DEF Unserved, GrantsKept
<1>4. AnswersTrue' BY DEF AnswersTrue
<1>5. ServingIsReal' BY DEF ServingIsReal
<1> QED BY <1>1, <1>2, <1>3, <1>4, <1>5

\* A step of one connection.
LEMMA DialInv ==
    ASSUME IInv, NEW c \in Dials,
           \/ Connect(c) \/ SellerTokenFails(c) \/ SellerTokenArrives(c) \/ SellerConnects(c)
           \/ SellerRefused(c) \/ SessionOver(c) \/ BecomesActive(c) \/ SellerLinkLost(c)
           \/ SellerGivesUp(c)
    PROVE  SellerGood' /\ UNCHANGED toolCall
<1> USE DEF IInv, SellerGood, SellerTypeOK, Undialled, ConnectedIsReal, SellerHears, ConnSteps,
            LineStates
<1>1. CASE Connect(c) BY <1>1 DEF Connect
<1>2. CASE SellerTokenFails(c) BY <1>2 DEF SellerTokenFails
<1>3. CASE SellerTokenArrives(c)
  <2>1. /\ UNCHANGED <<connected, toolCall>> /\ socket' = c /\ line[c] = "off"
        /\ conn' = [conn EXCEPT ![c] = "waiting"] /\ line' = [line EXCEPT ![c] = "down"]
    BY <1>3 DEF SellerTokenArrives
  <2>2. conn'[c] = "waiting" /\ \A d \in Dials : d # c => line'[d] = line[d] /\ conn'[d] = conn[d]
    BY <2>1
  <2> QED BY <2>1, <2>2
<1>4. CASE SellerConnects(c) BY <1>4 DEF SellerConnects
<1>5. CASE SellerRefused(c) BY <1>5 DEF SellerRefused
<1>6. CASE SessionOver(c) BY <1>6 DEF SessionOver
<1>7. CASE BecomesActive(c) BY <1>7 DEF BecomesActive
<1>8. CASE SellerLinkLost(c) BY <1>8 DEF SellerLinkLost
<1>9. CASE SellerGivesUp(c) BY <1>9 DEF SellerGivesUp
<1> QED BY <1>1, <1>2, <1>3, <1>4, <1>5, <1>6, <1>7, <1>8, <1>9

\* The client closes whatever it holds.
LEMMA CloseInv ==
    ASSUME IInv, Close
    PROVE  /\ line' \in [Dials -> LineStates] /\ socket' = NoSocket /\ connected' = FALSE
           /\ \A c \in Dials : line'[c] \in {line[c], "off"}
           /\ toolCall' \in [Reqs -> Promises]
           /\ \A r \in Reqs : toolCall'[r] \in {"resolved", "refused"} =>
                toolCall'[r] = toolCall[r]
BY DEF IInv, SellerGood, Close, SellerTypeOK, LineStates, Promises

LEMMA SellerInv ==
    ASSUME IInv, (\E c \in Dials : SellerStep(c)) \/ SellerCloses
    PROVE  IInv'
<1>1. UNCHANGED <<buyerVars, wireVars>> BY DEF SellerStep, SellerCloses
<1>2. CASE \E c \in Dials : SellerStep(c) /\ ~ActiveTimeout(c)
  <2>1. SellerGood' /\ UNCHANGED toolCall BY <1>2, DialInv DEF SellerStep
  <2> QED BY <1>1, <2>1, SellerKeeps
<1>3. CASE /\ Close /\ conn' \in [Dials -> ConnSteps]
           /\ \A c \in Dials : conn'[c] \in {"idle", "token"} => conn'[c] = conn[c]
  <2>1. SellerTypeOK' /\ ConnectedIsReal' BY <1>3, CloseInv DEF SellerTypeOK, ConnectedIsReal
  <2>2. Undialled' BY <1>3, CloseInv DEF IInv, SellerGood, Undialled
  <2>3. SellerGood' BY <2>1, <2>2 DEF SellerGood
  <2> QED BY <1>1, <1>3, <2>3, CloseInv, SellerKeeps
<1>4. CASE \E c \in Dials : ActiveTimeout(c)
  <2>1. /\ conn' \in [Dials -> ConnSteps]
        /\ \A c \in Dials : conn'[c] \in {"idle", "token"} => conn'[c] = conn[c]
    BY <1>4 DEF ActiveTimeout, IInv, SellerGood, SellerTypeOK, ConnSteps
  <2> QED BY <1>3, <1>4, <2>1 DEF ActiveTimeout
<1>5. CASE SellerCloses
  <2>1. conn' = conn /\ conn \in [Dials -> ConnSteps]
    BY <1>5 DEF SellerCloses, Disconnect, IInv, SellerGood, SellerTypeOK
  <2> QED BY <1>3, <1>5, <2>1 DEF SellerCloses, Disconnect
<1> QED BY <1>2, <1>4, <1>5

\* A tool call is made, or is not waited for any longer.
LEMMA CallInv == ASSUME IInv, NEW r \in Reqs, Call(r) \/ CallExpires(r) PROVE IInv'
<1>1. CASE CallExpires(r)
  <2> USE <1>1 DEF CallExpires, ToolTimeout
  <2>1. SellerGood'
    BY DEF IInv, SellerGood, SellerTypeOK, Undialled, ConnectedIsReal, SellerHears, Promises
  <2>2. \A q \in Reqs : toolCall'[q] \in {"resolved", "refused"} => toolCall'[q] = toolCall[q]
    BY DEF IInv, SellerGood, SellerTypeOK
  <2> QED BY <2>1, <2>2, SellerKeeps
<1>2. CASE Call(r)
  <2> USE <1>2 DEF Call, SendToolCall, IInv, buyerVars, sessionVars, grantVars, socketVars
  <2>1. SellerGood'
    BY DEF SellerGood, SellerTypeOK, Undialled, ConnectedIsReal, SellerHears, Promises
  <2>2. BuyerShape' /\ WireShape' BY DEF BuyerShape, WireShape
  <2>3. Counted' /\ ServingIsReal' BY DEF Counted, Executed, ServingIsReal
  <2>4. Unserved' /\ GrantsKept' BY DEF Unserved, GrantsKept
  <2>5. AnswersTrue' BY DEF AnswersTrue, SellerGood, SellerTypeOK
  <2> QED BY <2>1, <2>2, <2>3, <2>4, <2>5
<1> QED BY <1>1, <1>2

\* The buyer's own steps leave the calls alone; the permission and the
\* exclusions are set before any call can arrive.
LEMMA BuyerInv == ASSUME IInv, BuyerStep PROVE IInv'
<1> USE DEF IInv
<1>1. UNCHANGED <<dialVars, wireVars, handling, transferred>>
  BY DEF BuyerStep, ConnectWorkspace, UidFails, UidArrives, BuyerConnects, BuyerRefused,
         BuyerLinkLost, WorkspaceOver, BuyerAbandons, BuyerTimeout, EndSession
<1>2. SellerGood' /\ WireShape'
  BY <1>1 DEF dialVars, wireVars, SellerGood, SellerTypeOK, Undialled, ConnectedIsReal, SellerHears,
              WireShape
<1>3. Counted' /\ AnswersTrue' BY <1>1 DEF dialVars, wireVars, Counted, Executed, AnswersTrue
<1>4. BuyerShape' /\ Unserved' /\ GrantsKept' /\ ServingIsReal'
  <2> USE <1>1 DEF BuyerShape, Unserved, GrantsKept, ServingIsReal, sessionVars, grantVars
  <2>1. CASE ConnectWorkspace
    <3>1. Secret \subseteq Reqs BY BuyerAssumption
    <3>2. /\ exclusions' \subseteq Reqs /\ mayWrite' \in BOOLEAN /\ joining = "idle"
          /\ UNCHANGED <<session, blink, serving, keepalive>> /\ held' = TRUE /\ joining' = "uid"
      BY <2>1, <3>1 DEF ConnectWorkspace, PreScan
    <3>3. \A r \in Reqs : handling[r] = "none" BY <3>2
    <3> QED BY <3>2, <3>3
  <2>2. CASE UidFails BY <2>2 DEF UidFails
  <2>3. CASE UidArrives BY <2>3 DEF UidArrives
  <2>4. CASE BuyerConnects BY <2>4 DEF BuyerConnects
  <2>5. CASE BuyerRefused BY <2>5 DEF BuyerRefused
  <2>6. CASE BuyerLinkLost BY <2>6 DEF BuyerLinkLost
  <2>7. CASE WorkspaceOver BY <2>7 DEF WorkspaceOver
  <2>8. CASE BuyerAbandons BY <2>8 DEF BuyerAbandons
  <2>9. CASE BuyerTimeout BY <2>9 DEF BuyerTimeout, Stop
  <2>10. CASE EndSession BY <2>10 DEF EndSession, Stop
  <2> QED BY <2>1, <2>2, <2>3, <2>4, <2>5, <2>6, <2>7, <2>8, <2>9, <2>10 DEF BuyerStep
<1> QED BY <1>2, <1>3, <1>4

-----------------------------------------------------------------------------
\* A call that arrives or leaves the write gate gets a verdict it did not have:
\* nobody executes what was not allowed, nor answers otherwise than it acted.
Verdicts == {"asking", "done", "refused", "silent"}
Verdict(r, what) ==
    /\ handling' = [handling EXCEPT ![r] = what]
    /\ what \in {"asking", "done"} => r \notin exclusions /\ (r \in Writes => mayWrite)
    /\ transferred' = IF what = "done" THEN transferred + 1 ELSE transferred

LEMMA ArrivesVerdict ==
    ASSUME IInv, NEW r \in Reqs, CallArrives(r)
    PROVE  \E what \in Verdicts : Verdict(r, what)
<1>1. CASE Refused(r) /\ Answer(r, "refused") /\ UNCHANGED transferred
  <2>1. Verdict(r, "refused") BY <1>1 DEF Verdict, Answer
  <2> QED BY <2>1 DEF Verdicts
<1>2. CASE ~Refused(r) /\ Answer(r, "asking") /\ UNCHANGED transferred
  <2>1. Verdict(r, "asking") BY <1>2 DEF Verdict, Answer, Refused
  <2> QED BY <2>1 DEF Verdicts
<1>3. CASE ~Refused(r) /\ Execute(r)
  <2>1. Verdict(r, "done") BY <1>3 DEF Verdict, Execute, Answer, Refused
  <2> QED BY <2>1 DEF Verdicts
<1>4. CASE ~Refused(r) /\ CannotExecute(r)
  <2>1. Verdict(r, "refused") BY <1>4 DEF Verdict, CannotExecute, Answer
  <2> QED BY <2>1 DEF Verdicts
<1> QED BY <1>1, <1>2, <1>3, <1>4 DEF CallArrives, HandleCall

LEMMA GateVerdict ==
    ASSUME IInv, NEW r \in Reqs, GateAnswers(r)
    PROVE  \E what \in Verdicts : Verdict(r, what)
<1>1. handling[r] = "asking" BY DEF GateAnswers, Approve, Deny, GateThrows
<1>2. r \notin exclusions /\ (r \in Writes => mayWrite) BY <1>1 DEF IInv, GrantsKept
<1>3. CASE Execute(r)
  <2>1. Verdict(r, "done") BY <1>2, <1>3 DEF Verdict, Execute, Answer
  <2> QED BY <2>1 DEF Verdicts
<1>4. CASE Answer(r, "refused") /\ UNCHANGED transferred
  <2>1. Verdict(r, "refused") BY <1>4 DEF Verdict, Answer
  <2> QED BY <2>1 DEF Verdicts
<1>5. CASE GateThrows(r)
  <2>1. Verdict(r, "silent") BY <1>5 DEF Verdict, GateThrows, Answer
  <2> QED BY <2>1 DEF Verdicts
<1> QED BY <1>3, <1>4, <1>5 DEF GateAnswers, Approve, Deny, CannotExecute

\* Executing one more call adds one to the count.
LEMMA CountOne ==
    ASSUME IInv, NEW r \in Reqs, handling[r] \in {"none", "asking"},
           NEW what \in Verdicts, Verdict(r, what)
    PROVE  Counted'
<1>1. IsFiniteSet(Executed)
  <2>1. Executed \subseteq Reqs BY DEF Executed
  <2> QED BY <2>1, ToolAssumption, FS_Subset
<1>2. handling \in [Reqs -> {"none", "asking", "done", "refused", "silent"}]
  BY DEF IInv, BuyerShape
<1>3. r \notin Executed BY DEF Executed
<1>4. CASE what = "done"
  <2>1. Executed' = Executed \cup {r} BY <1>2, <1>4 DEF Executed, Verdict
  <2>2. Cardinality(Executed \cup {r}) = Cardinality(Executed) + 1
    BY <1>1, <1>3, FS_AddElement
  <2> QED BY <1>4, <2>1, <2>2 DEF Counted, IInv, Verdict
<1>5. CASE what # "done"
  <2>1. Executed' = Executed BY <1>2, <1>3, <1>5 DEF Executed, Verdict
  <2> QED BY <1>5, <2>1 DEF Counted, IInv, Verdict
<1> QED BY <1>4, <1>5

\* The verdict is carried out and answered.
LEMMA VerdictInv ==
    ASSUME IInv, NEW r \in Reqs, handling[r] \in {"none", "asking"},
           NEW what \in Verdicts, Verdict(r, what), SendResult(r), toBuyer' \subseteq toBuyer,
           joining \notin {"idle", "uid"},
           UNCHANGED <<dialVars, sessionVars, grantVars, socketVars>>
    PROVE  IInv'
<1> USE DEF IInv
<1>1. /\ handling'[r] = what
      /\ \A q \in Reqs : q # r => handling'[q] = handling[q]
      /\ handling' \in [Reqs -> {"none", "asking", "done", "refused", "silent"}]
  BY DEF Verdict, Verdicts, BuyerShape
<1>2. SellerGood'
  BY DEF dialVars, SellerGood, SellerTypeOK, Undialled, ConnectedIsReal, SellerHears
<1>3. BuyerShape' /\ Unserved' /\ ServingIsReal'
  BY <1>1 DEF sessionVars, grantVars, socketVars, BuyerShape, Unserved, ServingIsReal
<1>4. GrantsKept' BY <1>1 DEF GrantsKept, Verdict, grantVars
<1>5. Counted' BY CountOne
<1>6. toSeller' \subseteq toSeller \cup {<<r, what = "done">>} BY <1>1 DEF SendResult
<1>7. toSeller' # toSeller => what \in {"done", "refused"} BY <1>1 DEF SendResult
<1>8. WireShape'
  <2>1. <<r, what = "done">> \in Reqs \X BOOLEAN OBVIOUS
  <2> QED BY <1>6, <2>1 DEF WireShape
<1>9. AnswersTrue'
  <2>1. UNCHANGED toolCall BY DEF dialVars
  <2>2. \A b \in BOOLEAN : <<r, b>> \notin toSeller BY DEF AnswersTrue
  <2>3. toolCall[r] \notin {"resolved", "refused"} BY DEF AnswersTrue
  <2>4. \A q \in Reqs, b \in BOOLEAN : q # r /\ <<q, b>> \in toSeller' => <<q, b>> \in toSeller
    BY <1>6
  <2>5. <<r, TRUE>> \in toSeller' => what = "done" BY <1>6, <2>2
  <2>6. <<r, FALSE>> \in toSeller' => what = "refused" BY <1>6, <1>7, <2>2
  <2> QED BY <1>1, <2>1, <2>3, <2>4, <2>5, <2>6 DEF AnswersTrue
<1> QED BY <1>2, <1>3, <1>4, <1>5, <1>8, <1>9

LEMMA ServeInv == ASSUME IInv, NEW r \in Reqs, CallArrives(r) \/ GateAnswers(r) PROVE IInv'
<1>1. CASE CallArrives(r)
  <2>1. handling[r] = "none" /\ blink = "up" BY <1>1 DEF CallArrives, HandleCall
  <2>2. joining \notin {"idle", "uid"} BY <2>1 DEF IInv, Unserved
  <2>3. /\ SendResult(r) /\ toBuyer' \subseteq toBuyer
        /\ UNCHANGED <<dialVars, sessionVars, grantVars, socketVars>>
    BY <1>1 DEF CallArrives, HandleCall
  <2> QED BY <1>1, <2>1, <2>2, <2>3, ArrivesVerdict, VerdictInv
<1>2. CASE GateAnswers(r)
  <2>1. handling[r] = "asking" BY <1>2 DEF GateAnswers, Approve, Deny, GateThrows
  <2>2. joining \notin {"idle", "uid"} BY <2>1 DEF IInv, Unserved
  <2>3. /\ SendResult(r) /\ toBuyer' \subseteq toBuyer
        /\ UNCHANGED <<dialVars, sessionVars, grantVars, socketVars>>
    BY <1>2 DEF GateAnswers, Approve, Deny, GateThrows
  <2> QED BY <1>2, <2>1, <2>2, <2>3, GateVerdict, VerdictInv
<1> QED BY <1>1, <1>2

\* A result settles the promise of its own call, if that still waits.
LEMMA ResultInv ==
    ASSUME IInv, NEW r \in Reqs, NEW success \in BOOLEAN, Result(r, success)
    PROVE  IInv'
<1> USE DEF IInv, Result, ResultArrives, buyerVars, sessionVars, grantVars, socketVars
<1>1. SellerGood'
  BY DEF SellerGood, SellerTypeOK, Undialled, ConnectedIsReal, SellerHears, Promises
<1>2. BuyerShape' /\ WireShape' BY DEF BuyerShape, WireShape
<1>3. Counted' /\ ServingIsReal' BY DEF Counted, Executed, ServingIsReal
<1>4. Unserved' /\ GrantsKept' BY DEF Unserved, GrantsKept
<1>5. AnswersTrue'
  <2>1. handling[r] = IF success THEN "done" ELSE "refused" BY DEF AnswersTrue
  <2>2. \A q \in Reqs : q # r => toolCall'[q] = toolCall[q] BY DEF SellerGood, SellerTypeOK
  <2>3. toolCall'[r] \in {toolCall[r], IF success THEN "resolved" ELSE "refused"}
    BY DEF SellerGood, SellerTypeOK
  <2>4. toSeller' \subseteq toSeller /\ UNCHANGED handling OBVIOUS
  <2> HIDE DEF IInv, Result, ResultArrives
  <2>5. SUFFICES ASSUME NEW q \in Reqs
        PROVE  /\ <<q, TRUE>> \in toSeller' \/ toolCall'[q] = "resolved" => handling[q] = "done"
               /\ <<q, FALSE>> \in toSeller' \/ toolCall'[q] = "refused" => handling[q] = "refused"
    BY <2>4 DEF AnswersTrue
  <2>6. /\ <<q, TRUE>> \in toSeller \/ toolCall[q] = "resolved" => handling[q] = "done"
        /\ <<q, FALSE>> \in toSeller \/ toolCall[q] = "refused" => handling[q] = "refused"
    BY DEF IInv, AnswersTrue
  <2>7. CASE q = r
    <3>1. CASE success BY <2>1, <2>3, <2>4, <2>6, <2>7, <3>1
    <3>2. CASE ~success BY <2>1, <2>3, <2>4, <2>6, <2>7, <3>2
    <3> QED BY <3>1, <3>2
  <2>8. CASE q # r BY <2>2, <2>4, <2>6, <2>8
  <2> QED BY <2>7, <2>8
<1> QED BY <1>1, <1>2, <1>3, <1>4, <1>5

LEMMA StepInv == IInv /\ [WorkspaceNext]_workspaceVars => IInv'
<1> SUFFICES ASSUME IInv, [WorkspaceNext]_workspaceVars PROVE IInv' OBVIOUS
<1>1. CASE (\E c \in Dials : SellerStep(c)) \/ SellerCloses BY <1>1, SellerInv
<1>2. CASE \E r \in Reqs : Call(r) \/ CallExpires(r) BY <1>2, CallInv
<1>3. CASE \E r \in Reqs : CallArrives(r) \/ GateAnswers(r) BY <1>3, ServeInv
<1>4. CASE \E r \in Reqs, success \in BOOLEAN : Result(r, success) BY <1>4, ResultInv
<1>5. CASE BuyerStep BY <1>5, BuyerInv
<1>6. CASE UNCHANGED workspaceVars
  <2>1. UNCHANGED <<buyerVars, wireVars>> /\ UNCHANGED dialVars BY <1>6 DEF workspaceVars
  <2>2. SellerGood' /\ UNCHANGED toolCall
    BY <2>1 DEF dialVars, IInv, SellerGood, SellerTypeOK, Undialled, ConnectedIsReal, SellerHears
  <2> QED BY <2>1, <2>2, SellerKeeps
<1> QED BY <1>1, <1>2, <1>3, <1>4, <1>5, <1>6 DEF WorkspaceNext

LEMMA Inductive == WorkspaceSpec => []IInv
BY InitInv, StepInv, PTL DEF WorkspaceSpec

-----------------------------------------------------------------------------
\* The count never exceeds the calls, so the state keeps its types.
LEMMA InvTypes == IInv => WorkspaceTypeOK /\ transferred \in Int
<1> SUFFICES ASSUME IInv PROVE WorkspaceTypeOK /\ transferred \in Int OBVIOUS
<1>1. Executed \subseteq Reqs BY DEF Executed
<1>2. IsFiniteSet(Executed) /\ Cardinality(Executed) <= Cardinality(Reqs)
  BY <1>1, ToolAssumption, FS_Subset
<1>3. Cardinality(Executed) \in Nat /\ Cardinality(Reqs) \in Nat
  BY <1>2, ToolAssumption, FS_CardinalityType
<1>4. transferred \in 0 .. Cardinality(Reqs) BY <1>2, <1>3 DEF IInv, Counted
<1> QED BY <1>4 DEF IInv, SellerGood, WorkspaceTypeOK, BuyerTypeOK, BuyerShape, WireShape

(***************************************************************************)
(* The seller believes of a tool call what happened in the buyer's         *)
(* directory, and only what was granted happened there (workspace/client.ts*)
(* sendToolCall, buyer/workspace.ts handleMcpCall).                        *)
(***************************************************************************)
THEOREM CallsTrue == WorkspaceSpec => []CallsAreTrue
<1>1. IInv => CallsAreTrue
  <2> SUFFICES ASSUME IInv PROVE CallsAreTrue OBVIOUS
  <2>1. WorkspaceTypeOK BY InvTypes
  <2>2. ResolvedWasDone BY DEF IInv, AnswersTrue, ResolvedWasDone, Executed
  <2>3. RefusedWasNotDone BY DEF IInv, AnswersTrue, RefusedWasNotDone, Executed
  <2>4. OnlyGranted BY DEF IInv, GrantsKept, OnlyGranted, Executed
  <2> QED BY <2>1, <2>2, <2>3, <2>4 DEF CallsAreTrue
<1> QED BY <1>1, Inductive, PTL

(***************************************************************************)
(* Neither end takes a dead connection for a live one, whatever sockets    *)
(* earlier connect() calls left behind (workspace/client.ts isConnected,   *)
(* buyer/workspace.ts isConnected and keepalive).                          *)
(***************************************************************************)
THEOREM FlagsReal == WorkspaceSpec => []FlagsAreReal
<1>1. IInv => FlagsAreReal BY DEF IInv, SellerGood, FlagsAreReal
<1> QED BY <1>1, Inductive, PTL

(***************************************************************************)
(* Past the transfer limit nothing moves but writes that were at the gate  *)
(* when it was reached (buyer/workspace.ts handleMcpCall).                 *)
(***************************************************************************)
THEOREM LimitBinds == WorkspaceSpec => LimitHolds
<1> DEFINE Bound == \A r \in Reqs : handling[r] # "done" /\ handling'[r] = "done"
                                      => transferred <= MaxTransfer \/ handling[r] = "asking"
<1>1. IInv /\ [WorkspaceNext]_workspaceVars => [Bound]_workspaceVars
  <2> SUFFICES ASSUME IInv, WorkspaceNext, NEW r \in Reqs, handling[r] # "done",
                      handling'[r] = "done", handling[r] # "asking"
               PROVE  transferred <= MaxTransfer
    OBVIOUS
  <2>1. transferred \in Int /\ MaxTransfer \in Int BY InvTypes, BuyerAssumption
  <2>2. handling \in [Reqs -> {"none", "asking", "done", "refused", "silent"}]
    BY DEF IInv, BuyerShape
  <2>3. PICK q \in Reqs : CallArrives(q) \/ GateAnswers(q)
    <3>1. handling' # handling BY <2>2
    <3>2. ~((\E c \in Dials : SellerStep(c)) \/ SellerCloses)
      BY <3>1 DEF SellerStep, SellerCloses, buyerVars
    <3>3. ~BuyerStep
      BY <3>1 DEF BuyerStep, ConnectWorkspace, UidFails, UidArrives, BuyerConnects, BuyerRefused,
                  BuyerLinkLost, WorkspaceOver, BuyerAbandons, BuyerTimeout, EndSession
    <3>4. ~\E p \in Reqs : Call(p) \/ CallExpires(p) BY <3>1 DEF Call, CallExpires, buyerVars
    <3>5. ~\E p \in Reqs, success \in BOOLEAN : Result(p, success)
      BY <3>1 DEF Result, buyerVars
    <3> QED BY <3>2, <3>3, <3>4, <3>5 DEF WorkspaceNext
  <2>4. q = r
    BY <2>2, <2>3 DEF CallArrives, HandleCall, GateAnswers, Approve, Deny, GateThrows, Execute,
                      CannotExecute, Answer
  <2>5. CallArrives(r) BY <2>3, <2>4 DEF GateAnswers, Approve, Deny, GateThrows
  <2>6. ~Refused(r)
    BY <2>2, <2>5 DEF CallArrives, HandleCall, Answer
  <2> QED BY <2>1, <2>6 DEF Refused
<1> QED BY <1>1, Inductive, PTL DEF WorkspaceSpec, LimitHolds
==============================================================================
