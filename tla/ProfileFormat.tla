--------------------------- MODULE ProfileFormat ---------------------------
(***************************************************************************)
(* What an agent's identity holds on chain and how it is written and read  *)
(* (src/src/onboarding/vdxf.ts): a contentmultimap from VDXF keys to       *)
(* sequences of DataDescriptors, in the flat format (one key per field)    *)
(* or, for identities older than the migration, in one container per group.*)
(*                                                                         *)
(* A key is <<group, leaf>>.  A text is a string as JSON.parse sees it:    *)
(* its form, and what it stands for.  Fields that are written and read in  *)
(* the same way are represented by one of them: displayName stands for     *)
(* type and description, profileTags for the network fields and the other  *)
(* profile fields, params for the platform and workspace settings too.     *)
(***************************************************************************)
EXTENDS Integers, FiniteSets, SequencesExt

CONSTANTS
    MAX_VALUE_BYTES,   \* MAX_CONTENTMULTIMAP_VALUE_BYTES
    MAX_PRICE,         \* VDXF_MAX_PRICE
    MAX_SERVICES,      \* VDXF_MAX_SERVICES
    MAX_PRICINGS       \* entries read of a service's pricing list, 50 in the code

Absent == [form |-> "absent"]    \* undefined, null, a field left out
Unreadable == [form |-> "throws"]    \* the decoder threw

VDXF_KEYS == [ agent     |-> {"displayName", "status", "payAddress", "services",
                              "profileTags", "models", "markup", "disputePolicy"},
               review    |-> {"record", "attestation"},
               session   |-> {"params"},
               workspace |-> {"attestation"},
               job       |-> {"record"} ]

VdxfKeys       == UNION {{<<g, leaf>> : leaf \in VDXF_KEYS[g]} : g \in DOMAIN VDXF_KEYS}
Agent(leaf) == <<"agent", leaf>>
AgentKeys  == {Agent(leaf) : leaf \in VDXF_KEYS["agent"]}
Review == <<"review", "record">>
Params == <<"session", "params">>

\* A field reference is an i-address, a dotted path (both name one key or
\* none), or a leaf name, which must not be in two groups.
Named(ref) == IF ref.kind = "leaf" THEN {k \in VdxfKeys : k[2] = ref.leaf}
                                   ELSE {k \in VdxfKeys : k = ref.key}
Resolves(ref) == Cardinality(Named(ref)) = 1
resolveVdxfFieldRef(ref) == CHOOSE k \in Named(ref) : TRUE

----------------------------------------------------------------------------
\* DataDescriptors: a value of its own, or a container of labelled values.

makeSubDD(text) == [dd |-> "sub", text |-> text]
parseSubDD(e) == IF e.dd = "sub" THEN e.text ELSE Absent
parseOuterDD(e) == IF e.dd = "outer" THEN e.fields ELSE << >>

Size(text) == IF text.form = "array" THEN Len(text.val) ELSE 1
contentmultimapValueByteSize(e) == Size(e.text)
assertContentmultimapValueSizes(cmm) ==
    \A k \in DOMAIN cmm : \A i \in DOMAIN cmm[k] :
        contentmultimapValueByteSize(cmm[k][i]) <= MAX_VALUE_BYTES

\* Both keep every value; the additions follow the existing ones.
mergeContentMultimap(existing, additions) ==
    [k \in DOMAIN existing \cup DOMAIN additions |->
        (IF k \in DOMAIN existing THEN existing[k] ELSE << >>)
          \o (IF k \in DOMAIN additions THEN additions[k] ELSE << >>)]

----------------------------------------------------------------------------
\* Services.  A service has a name ("" when it is missing), its own price,
\* and the prices in the other currencies it accepts.

NoPrice == -1

\* The price is the first of the pricing list when there is one.
serializeService(s) ==
    [name |-> s.name,
     pricing |-> (IF s.price # NoPrice THEN <<s.price>> ELSE << >>) \o s.accepted]

safePrice(n) == n \in 0 .. MAX_PRICE

\* slice(0, n)
First(s, n) == SubSeq(s, 1, IF Len(s) < n THEN Len(s) ELSE n)

\* The first price is the service's own, dropped if it is unusable; of the
\* others the unusable ones are, and those past the limit.
decodeService(s) ==
    LET pricing == First(s.pricing, MAX_PRICINGS)
    IN  [name |-> s.name,
         price |-> IF pricing # << >> /\ safePrice(Head(pricing)) THEN Head(pricing) ELSE NoPrice,
         accepted |-> IF Len(pricing) > 1 THEN SelectSeq(Tail(pricing), safePrice) ELSE << >>]

decodeServicesArray(text) ==
    IF text.form = "word" THEN Unreadable
    ELSE IF text.form # "array" THEN [form |-> "services", val |-> << >>]
    ELSE LET named == SelectSeq(First(text.val, MAX_SERVICES), LAMBDA s : s.name # "")
         IN  [form |-> "services", val |-> [i \in DOMAIN named |-> decodeService(named[i])]]

----------------------------------------------------------------------------
\* Publishing.  A profile gives a text to each field it has.

Text(form, val) == [form |-> form, val |-> val]
ServiceList(svcs) == Text("array", [i \in DOMAIN svcs |-> serializeService(svcs[i])])

\* What is empty or out of range is left out.
Publishes(k, text) ==
    CASE k = Agent("markup") -> text.val \in 1 .. 50
      [] k \in {Agent("profileTags"), Agent("models"), Agent("services")} -> text.val # << >>
      [] OTHER -> TRUE

Override(f, g) ==
    [k \in DOMAIN f \cup DOMAIN g |-> IF k \in DOMAIN g THEN g[k] ELSE f[k]]

buildAgentContentMultimap(profile) ==
    LET status == [k \in {Agent("status")} |-> Text("word", "active")]
        all    == Override(profile, status)
    IN  [k \in {k \in DOMAIN all : Publishes(k, all[k])} |-> <<makeSubDD(all[k])>>]

\* A job's records: always a job record, with it a review and an attestation
\* where there are any (records maps the keys to texts).
buildJobCompletionAdditions(records) == [k \in DOMAIN records |-> <<makeSubDD(records[k])>>]

\* Every key of an expected payload is on chain with some value.
verifyPublishedIdentity(onchain, expected) ==
    \A k \in DOMAIN expected : k \in DOMAIN onchain /\ onchain[k] # << >>

----------------------------------------------------------------------------
\* Reading.  The status of an agent is written for others: no decoder reads it.

ReadKeys == (AgentKeys \ {Agent("status")}) \cup {Params}

Accepts(k, text) ==
    CASE k = Agent("payAddress") -> text.form = "address"
      [] k = Agent("models")     -> text.form = "array"
      [] k = Agent("markup")     -> text.form = "number" /\ text.val \in 1 .. 50
      [] k = Params              -> text.form \in {"array", "object"}
      [] OTHER                   -> TRUE

Reads(k, text) ==
    IF text.form \in {"absent", "empty"} \/ ~Accepts(k, text) THEN Absent
    ELSE IF k = Agent("services") THEN decodeServicesArray(text)
    ELSE text

Decoded(fields) == IF \E k \in DOMAIN fields : fields[k] = Unreadable THEN Unreadable ELSE fields

\* Mutant: the first entry is read, which the aggregated view keeps for ever.
parseFlatEntry_First(cmm, k) ==
    IF k \in DOMAIN cmm /\ cmm[k] # << >> THEN parseSubDD(Head(cmm[k])) ELSE Absent

\* The last entry of a key is its latest value.
parseFlatEntry(cmm, k) ==
    IF k \in DOMAIN cmm /\ cmm[k] # << >> THEN parseSubDD(Last(cmm[k])) ELSE Absent

decodeFlatContentMultimap(cmm) ==
    Decoded([k \in ReadKeys |-> Reads(k, parseFlatEntry(cmm, k))])

\* The fields of a group's container, and the label a field had in it: the
\* address was the owner's, the profile one JSON text, and there was no
\* dispute policy.
Container(cmm, group) ==
    LET k == <<"parent", group>>
    IN  IF k \in DOMAIN cmm /\ cmm[k] # << >> THEN parseOuterDD(Last(cmm[k])) ELSE << >>
LegacyLabel(k) ==
    CASE k = Agent("payAddress")  -> Agent("owner")
      [] k = Agent("profileTags") -> Agent("profile")
      [] OTHER                    -> k
LegacyEntry(cmm, k) ==
    LET fields == Container(cmm, k[1])
    IN  IF k # Agent("disputePolicy") /\ LegacyLabel(k) \in DOMAIN fields
        THEN fields[LegacyLabel(k)] ELSE Absent
LegacyReads(k, text) ==
    IF k \in {Agent("profileTags"), Agent("models"), Params} /\ text.form = "word"
    THEN Unreadable ELSE Reads(k, text)

decodeLegacyContentMultimap(cmm) ==
    Decoded([k \in ReadKeys |-> LegacyReads(k, LegacyEntry(cmm, k))])

\* A container alone does not make an identity a legacy one: it stays in the
\* map for ever.
isLegacyFormat(cmm) == /\ <<"parent", "agent">> \in DOMAIN cmm
                       /\ AgentKeys \cap DOMAIN cmm = {}

decodeContentMultimap(cmm) ==
    IF isLegacyFormat(cmm) THEN decodeLegacyContentMultimap(cmm)
                           ELSE decodeFlatContentMultimap(cmm)

\* The prices a service is offered at, its own first.  Of the services and the
\* prices within the limits every usable price is read, and no other.
Offers(s) == (IF s.price # NoPrice THEN <<s.price>> ELSE << >>) \o s.accepted

PricesRead(list) ==
    LET read  == decodeServicesArray(Text("array", list)).val
        named == SelectSeq(list, LAMBDA s : s.name # "")
    IN  Len(list) <= MAX_SERVICES =>
            /\ DOMAIN read = DOMAIN named
            /\ \A i \in DOMAIN read :
                  Offers(read[i]) = SelectSeq(First(named[i].pricing, MAX_PRICINGS), safePrice)

============================================================================
