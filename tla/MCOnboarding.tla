---------------------------- MODULE MCOnboarding ----------------------------
(***************************************************************************)
(* Small instances, for TLC, of how an agent's identity comes to be and of *)
(* what is then written on it: Onboarding and OnChainProfile.  They share  *)
(* no state, so a behaviour here moves only one of them.                   *)
(***************************************************************************)
EXTENDS Onboarding, OnChainProfile

VARIABLE side

\* Two service offers.
MCServices == <<"svc1", "svc2">>

\* Two kinds of run: what the one is not asked for, the other is.
MCRequests == {{2, 4, 5}, {1, 3}}

Word(s)   == Text("word", s)
Object(s) == Text("object", s)
Entry(k, e) == [x \in {k} |-> <<e>>]
Leaf(leaf) == [kind |-> "leaf", leaf |-> leaf]
Path(k)    == [kind |-> "path", key |-> k]
Edit(ref, text) == [r \in {ref} |-> text]

\* A service with a price it accepts besides, one whose own price is beyond
\* the ceiling, and one without a name.
S1 == [name |-> "s", price |-> 1, accepted |-> <<2, 9>>]
S2 == [name |-> "t", price |-> 9, accepted |-> <<1>>]
S3 == [name |-> "", price |-> 1, accepted |-> << >>]

Full(svcs, markup, pay) ==
    [k \in {Agent("displayName"), Agent("services"), Agent("markup"), Agent("payAddress")} |->
        CASE k = Agent("displayName") -> Word("a")
          [] k = Agent("services") -> ServiceList(svcs)
          [] k = Agent("markup") -> Text("number", markup)
          [] k = Agent("payAddress") -> pay]

MCProfiles == {Full(<<S1, S3, S2>>, 51, Text("address", "R1"))}

\* An identity that was never migrated.
Outer(fields) == [dd |-> "outer", fields |-> fields]
MCContainers ==
    {[k \in {<<"parent", "agent">>, <<"parent", "session">>} |->
        IF k[2] = "agent"
        THEN <<Outer([l \in {Agent("displayName"), Agent("owner")} |->
                        IF l = Agent("owner") THEN Text("address", "R0") ELSE Word("old")])>>
        ELSE <<Outer([l \in {Params} |-> Object("p0")])>>]}

\* Fields by name and by path, an ambiguous name, an oversized value and
\* texts the decoder has to refuse.
MCRewrites ==
    {[ref \in {Leaf("params"), Leaf("markup"), Path(Agent("payAddress"))} |->
        CASE ref.kind = "path" -> Text("word", "bogus")
          [] ref = Leaf("params") -> Object("p1")
          [] ref = Leaf("markup") -> Text("number", 0)],
     Edit(Leaf("record"), Word("c")), Edit(Path(Agent("services")), Word("d")),
     Edit(Path(Agent("services")), ServiceList(<<S1, S1, S1, S1>>))}

\* A review with its job record, and that review in another form beside one
\* of another job and one that does not decode.
MCAccepted == {buildJobCompletionAdditions([k \in {Review, <<"job", "record">>} |->
                   IF k = Review THEN Object("h1") ELSE Object("j")]),
               [x \in {Review} |-> <<makeSubDD(Word("?")), makeSubDD(Object("h2")),
                                     [dd |-> "bare", text |-> Object("h1")]>>]}

\* Prices survive reading (decodeServicesArray): up to two services, each with
\* up to three prices, one more than are read, around the bounds of what is
\* usable.
MCPrices   == {-1, 0, MAX_PRICE, MAX_PRICE + 1}
MCServiceLists ==
    BoundedSeq([name : {"", "s"}, pricing : BoundedSeq(MCPrices, 3)], 2)
ASSUME PricesReadBack == \A list \in MCServiceLists : PricesRead(list)

----------------------------------------------------------------------------

(***************************************************************************)
(* "onboarding": one agent and every fault; "shared": two agents, one      *)
(* after the other and without faults, on one machine, whose runs share    *)
(* its state file.  Only what starts or fails is bounded, so that each     *)
(* program keeps a step that fairness asks for.                            *)
(***************************************************************************)
FirstKey == CHOOSE k \in Keys : TRUE
FirstNetwork == CHOOSE net \in Networks : TRUE
Within ==
    \/ side = "onboarding" /\ runs' <= MaxRuns - 2 /\ key' \in {None, FirstKey}
    \/ side = "shared" /\ faults' = 0 /\ networkType' = FirstNetwork

SidesInit == /\ Init /\ ProfileInit
             /\ side \in {"onboarding", "shared", "profile"}
             /\ side # "profile" => history[1].cmm \in Containers
             /\ side = "shared" => networkType = FirstNetwork
SidesNext == /\ UNCHANGED side
             /\ \/ Next /\ Within /\ UNCHANGED profileVars
                \/ side = "profile" /\ ProfileNext /\ UNCHANGED allVars
SidesSpec == SidesInit /\ [][SidesNext]_<<allVars, profileVars, side>>

\* Only onboarding's properties need fairness.
FairSides == SidesSpec /\ Fairness

============================================================================
