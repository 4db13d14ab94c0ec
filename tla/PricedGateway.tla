----------------------------- MODULE PricedGateway -----------------------------
(***************************************************************************)
(* The model gateway and what its calls cost: LiteLlmPricingCatalog        *)
(* (bounded walk over the source, indexing, estimate), the retry loop of   *)
(* BifrostModelGateway.execute, and the cost records of                    *)
(* src/domain/model-intelligence.ts that add calls up.                     *)
(***************************************************************************)
EXTENDS Integers, Sequences, FiniteSets, FiniteSetsExt, SequencesExt

CONSTANTS PriceSources,    \* sources: [kids: a sequence of sequences of nodes, kind: node -> "node" | "leaf" | "big" | "odd", large]
          MaxJsonNodes, MaxJsonDepth,
          Catalogues,      \* sequences of entries [raw, input, output, cache, modifier, sound]
          PricedRequests,  \* model names, as paths: <<"m">>, or <<"p", "m">> with the provider's prefix
          Usages,          \* [input, output, cached, sound], as the provider reports them
          GatewayClock,    \* readings: "fails", "early", "fresh", "old"
          MaxGatewayRetries, MaxGatewayCalls

\* A price is a number of cents, -1 when the entry has none, -2 when it is malformed.
PriceFields == {-2, -1} \cup Nat
PriceEntries == [raw : Seq(STRING), input : PriceFields, output : PriceFields, cache : PriceFields,
                 modifier : BOOLEAN, sound : BOOLEAN]
UsageRecords == [input : Nat, output : Nat, cached : Nat, sound : BOOLEAN]

ASSUME PricedAssumption ==
  /\ MaxJsonNodes \in Nat /\ MaxJsonDepth \in Nat
  /\ \A d \in PriceSources :
       /\ d.kids \in Seq(Seq(Nat)) /\ Len(d.kids) > 0 /\ d.large \in BOOLEAN   \* node 1 is the value itself
       /\ \A n \in DOMAIN d.kids : /\ \A i \in DOMAIN d.kids[n] : d.kids[n][i] \in DOMAIN d.kids
                                   /\ d.kind[n] \in {"node", "leaf", "big", "odd"}
  /\ \A entries \in Catalogues :
       /\ entries \in Seq(PriceEntries)
       /\ \A i \in DOMAIN entries : entries[i].sound => entries[i].raw # <<>>   \* rejected without a name
  /\ PricedRequests \subseteq Seq(STRING) /\ Usages \subseteq UsageRecords

VARIABLES source,    \* the load: [step, text, data, stack, count, verdict]
          prices,    \* the indexed catalogue, a sequence of entries
          gatewayCall,   \* the call in progress: [step, model, retries]
          health,    \* the provider's health
          ledger     \* the records of the finished calls

pricedVars == <<source, prices, gatewayCall, health, ledger>>

Provider == "p"
NoGatewayCall == [step |-> "idle", model |-> <<>>, retries |-> 0]
NoSource == [step |-> "none", text |-> FALSE, data |-> <<>>, stack |-> <<>>, count |-> 0, verdict |-> "none"]

PricedInit ==
  /\ source = NoSource /\ prices = <<>> /\ gatewayCall = NoGatewayCall
  /\ health = "HEALTHY" /\ ledger = <<>>

-----------------------------------------------------------------------------
\* Loading.  A text is parsed first, so it holds no cycle; an object of the caller may share parts
\* or contain itself.
Reaches(d, n) == LET step(S) == S \cup UNION {ToSet(d.kids[m]) : m \in S}
                     all[i \in 0..Cardinality(DOMAIN d.kids)] == IF i = 0 THEN ToSet(d.kids[n]) ELSE step(all[i - 1])
                 IN all[Cardinality(DOMAIN d.kids)]
Cyclic(d) == \E n \in DOMAIN d.kids : n \in Reaches(d, n)

LoadSource(d, text) ==
  /\ source.step = "none" /\ (text => ~Cyclic(d))
  /\ source' = IF text /\ d.large
               THEN [source EXCEPT !.step = "loaded", !.text = text, !.data = d, !.verdict = "refused"]
               ELSE [source EXCEPT !.step = "walk", !.text = text, !.data = d,
                                   !.stack = <<[node |-> 1, depth |-> 0, next |-> 0]>>]
  /\ UNCHANGED <<prices, gatewayCall, health, ledger>>

WalkEnds(verdict) == source' = [source EXCEPT !.step = "loaded", !.verdict = verdict, !.stack = <<>>, !.count = 0]
Top == source.stack[Len(source.stack)]
Below == SubSeq(source.stack, 1, Len(source.stack) - 1)
RefusedAtLimit(frame, count) ==
  \/ count >= MaxJsonNodes
  \/ frame.depth > MaxJsonDepth
  \/ source.data.kind[frame.node] \in {"big", "odd"}
Refused(frame, count) ==
  \/ count > MaxJsonNodes
  \/ frame.depth > MaxJsonDepth
  \/ source.data.kind[frame.node] \in {"big", "odd"}

\* assertBoundedParsedJson: a stack of pending values, the last pushed first.
WalkText ==
  LET kids == source.data.kids[Top.node] IN
  /\ source.step = "walk" /\ source.text
  /\ IF source.stack = <<>> THEN WalkEnds("accepted")
     ELSE IF Refused(Top, source.count + 1) THEN WalkEnds("refused")
     ELSE source' = [source EXCEPT !.count = @ + 1,
            !.stack = Below \o [i \in DOMAIN kids |-> [node |-> kids[i], depth |-> Top.depth + 1, next |-> 0]]]
  /\ UNCHANGED <<prices, gatewayCall, health, ledger>>

\* canonicalizeBoundedJson: recursion with the set of ancestors, here the nodes on the stack below
\* the value being written; a value that returns leaves the set.
Ancestors == {source.stack[i].node : i \in 1..(Len(source.stack) - 1)}

WalkObject ==
  /\ source.step = "walk" /\ ~source.text
  /\ IF source.stack = <<>>
     THEN WalkEnds(IF source.data.large THEN "refused" ELSE "accepted")
     ELSE LET kids == source.data.kids[Top.node] IN
          IF Top.next = 0 /\ (Refused(Top, source.count + 1) \/ Top.node \in Ancestors) THEN WalkEnds("refused")
          ELSE source' = [source EXCEPT
                 !.count = IF Top.next = 0 THEN @ + 1 ELSE @,
                 !.stack = IF Top.next = Len(kids) THEN Below
                           ELSE Append(Append(Below, [Top EXCEPT !.next = @ + 1]),
                                       [node |-> kids[Top.next + 1], depth |-> Top.depth + 1, next |-> 0])]
  /\ UNCHANGED <<prices, gatewayCall, health, ledger>>

\* parseCatalog: entries without a name or a provider are rejected and counted, the others indexed.
Indexed(entries) ==
  LET upTo[n \in 0..Len(entries)] ==
        IF n = 0 THEN <<>>
        ELSE IF entries[n].sound THEN Append(upTo[n - 1], entries[n]) ELSE upTo[n - 1]
  IN upTo
IndexCatalogue(entries) ==
  /\ source.step = "loaded" /\ source.verdict = "accepted" /\ prices = <<>>
  /\ prices' = Indexed(entries)[Len(entries)]
  /\ source' = [NoSource EXCEPT !.step = "indexed"]
  /\ UNCHANGED <<gatewayCall, health, ledger>>

-----------------------------------------------------------------------------
\* resolveEntries: the exact name, else an entry that carries the provider's prefix, else, for a
\* prefixed name, an entry without it.
Exact(model) == {i \in DOMAIN prices : prices[i].raw = model}
Alias(model) == {i \in DOMAIN prices : prices[i].raw = <<Provider>> \o model}
Unprefixed(model) == IF Len(model) > 1 /\ Head(model) = Provider THEN Exact(Tail(model)) \cup Alias(Tail(model)) ELSE {}
Resolved(model) ==
  CASE Exact(model) # {} -> Exact(model)
    [] Exact(model) = {} /\ Alias(model) # {} -> Alias(model)
    [] OTHER -> Unprefixed(model)

ComponentsDoubled(entry, usage) == <<[tokens |-> usage.input, price |-> entry.input],
                                     [tokens |-> usage.output, price |-> entry.output],
                                     [tokens |-> usage.cached, price |-> entry.cache]>>
Components(entry, usage) == <<[tokens |-> usage.input - usage.cached, price |-> entry.input],
                              [tokens |-> usage.output, price |-> entry.output],
                              [tokens |-> usage.cached, price |-> entry.cache]>>

Priceable(entry, usage) ==
  LET parts == Components(entry, usage) IN
  /\ \A i \in DOMAIN parts : parts[i].price # -2 /\ (parts[i].tokens > 0 => parts[i].price # -1)
  /\ ~(usage.input = 0 /\ usage.output = 0 /\ entry.input < 0 /\ entry.output < 0)
Amount(entry, usage) ==
  LET parts == Components(entry, usage)
      cost(i) == IF parts[i].price >= 0 THEN parts[i].tokens * parts[i].price ELSE 0
  IN cost(1) + cost(2) + cost(3)

UnknownCost == [status |-> "UNKNOWN", amount |-> 0]
Estimate(model, usage, clock) ==
  IF /\ clock = "fresh" /\ usage.cached <= usage.input
     /\ Cardinality(Resolved(model)) = 1
     /\ \A i \in Resolved(model) : ~prices[i].modifier /\ Priceable(prices[i], usage)
  THEN [status |-> "ESTIMATED", amount |-> Amount(prices[CHOOSE i \in Resolved(model) : TRUE], usage)]
  ELSE UnknownCost

\* createCostRecord; a call of a native agent is covered by its subscription or reports its cost.
CostRecord(model, usage, cost) ==
  [model |-> model, usage |-> usage, status |-> cost.status, amount |-> cost.amount,
   unknown |-> IF cost.status = "UNKNOWN" THEN 1 ELSE 0]

BeginCall(model) ==
  /\ prices # <<>> /\ gatewayCall.step = "idle" /\ Len(ledger) < MaxGatewayCalls
  /\ gatewayCall' = [NoGatewayCall EXCEPT !.step = "attempt", !.model = model]
  /\ UNCHANGED <<source, prices, health, ledger>>

\* The attempt fails (credential, network, status, body), or a name the catalogue cannot normalise
\* throws after the answer came: the whole request is sent again.
GatewayAttemptFails ==
  /\ gatewayCall.step = "attempt"
  /\ health' = IF gatewayCall.retries + 1 > MaxGatewayRetries THEN "BROKEN" ELSE "DEGRADED"
  /\ gatewayCall' = IF gatewayCall.retries + 1 > MaxGatewayRetries THEN NoGatewayCall
                ELSE [gatewayCall EXCEPT !.retries = @ + 1]
  /\ UNCHANGED <<source, prices, ledger>>

\* The answer: usage that is missing or malformed makes the cost unknown, never zero.
GatewayAnswers(usage, clock) ==
  /\ gatewayCall.step = "attempt" /\ gatewayCall.model # <<>>
  /\ health' = "HEALTHY"
  /\ ledger' = Append(ledger, CostRecord(gatewayCall.model, usage,
                 IF usage.sound THEN Estimate(gatewayCall.model, usage, clock) ELSE UnknownCost))
  /\ gatewayCall' = NoGatewayCall
  /\ UNCHANGED <<source, prices>>

\* A native agent's call joins the ledger with the cost its CLI reported, or none.
NativeCall(cost) ==
  /\ prices # <<>> /\ gatewayCall.step = "idle" /\ Len(ledger) < MaxGatewayCalls
  /\ ledger' = Append(ledger, CostRecord(<<>>, [input |-> 0, output |-> 0, cached |-> 0, sound |-> TRUE], cost))
  /\ UNCHANGED <<source, prices, gatewayCall, health>>

\* aggregateCostRecords.  A sum is kept as the sums of every prefix.
Added(numbers) ==
  LET upTo[n \in 0..Len(numbers)] == IF n = 0 THEN 0 ELSE upTo[n - 1] + numbers[n] IN upTo
Total(records) == Added([i \in DOMAIN records |-> records[i].amount])[Len(records)]
Unknown(records) == Added([i \in DOMAIN records |-> records[i].unknown])[Len(records)]
StatusesOf(records) == {records[i].status : i \in DOMAIN records}
Combined(statuses, total, unknown) ==
  CASE unknown > 0 -> [status |-> "UNKNOWN", amount |-> 0]
    [] unknown = 0 /\ statuses = {"SUBSCRIPTION_INCLUDED"} -> [status |-> "SUBSCRIPTION_INCLUDED", amount |-> 0]
    [] OTHER -> [status |-> IF statuses \cap {"ESTIMATED", "SUBSCRIPTION_INCLUDED"} # {} THEN "ESTIMATED" ELSE "EXACT",
                 amount |-> total]
\* Mutant: the unknown components are counted by what the statuses say.
AggregateByStatus(records) ==
  LET unknown == IF StatusesOf(records) = {"UNKNOWN"} THEN 1 ELSE 0
  IN [cost |-> Combined(StatusesOf(records), Total(records), unknown), unknown |-> 0, subtotal |-> Total(records)]

Aggregate(records) ==
  [cost |-> Combined(StatusesOf(records), Total(records), Unknown(records)),
   unknown |-> Unknown(records), subtotal |-> Total(records)]

PricedNext ==
  \/ \E d \in PriceSources, text \in BOOLEAN : LoadSource(d, text)
  \/ WalkText \/ WalkObject
  \/ \E entries \in Catalogues : IndexCatalogue(entries)
  \/ \E model \in PricedRequests : BeginCall(model)
  \/ GatewayAttemptFails
  \/ \E usage \in Usages, clock \in GatewayClock : GatewayAnswers(usage, clock)
  \/ \E status \in {"EXACT", "SUBSCRIPTION_INCLUDED"} :
       NativeCall([status |-> status, amount |-> IF status = "EXACT" THEN 2 ELSE 0])

PricedSpec == PricedInit /\ [][PricedNext]_pricedVars

-----------------------------------------------------------------------------

\* The places of the value a source stands for, down to one level past the limit: paths of child
\* indices from the root, each with its node.
RootPlace == <<<<>>, 1>>
KidPlace(d, x, i) == <<Append(x[1], i), d.kids[x[2]][i]>>
KidPlaces(d, x) == {KidPlace(d, x, i) : i \in DOMAIN d.kids[x[2]]}
Levels(d) ==
  LET from[k \in 0..(MaxJsonDepth + 1)] ==
        IF k = 0 THEN {RootPlace} ELSE UNION {KidPlaces(d, x) : x \in from[k - 1]}
  IN from
Places(d) == UNION {Levels(d)[k] : k \in 0..(MaxJsonDepth + 1)}
WellBounded(d) ==
  /\ ~d.large /\ Cardinality(Places(d)) <= MaxJsonNodes
  /\ \A x \in Places(d) : Len(x[1]) <= MaxJsonDepth /\ d.kind[x[2]] \in {"node", "leaf"}

\* The two walks, one over an explicit stack and one recursive with an ancestor set, admit exactly
\* the sources whose value is within the limits: shared parts count once per place, and a part of a
\* caller's object that contains itself is never admitted.
WalksAdmitTheBounded ==
  source.step = "loaded" => (source.verdict = "accepted" <=> WellBounded(source.data))

\* How closely an entry names a model: exactly, with the provider's prefix added, or without it.
Distance(e, model) ==
  CASE e.raw = model -> 0 [] e.raw = <<Provider>> \o model -> 1
    [] <<Provider>> \o e.raw = model -> 2 [] OTHER -> 3

\* An estimate is the price of what was used: it comes from the only entry that names the model
\* most closely, no token is priced at an unknown price, and a cached token is paid once.
EstimateIsTheUse ==
  \A n \in DOMAIN ledger : ledger[n].status = "ESTIMATED" =>
    LET call == ledger[n]
        near == {i \in DOMAIN prices : /\ Distance(prices[i], call.model) < 3
                                       /\ \A j \in DOMAIN prices : Distance(prices[j], call.model) >= Distance(prices[i], call.model)}
    IN \E i \in near :
         /\ near = {i}
         /\ call.usage.cached > 0 => prices[i].cache >= 0
         /\ call.usage.output > 0 => prices[i].output >= 0
         /\ call.usage.input > call.usage.cached => prices[i].input >= 0
         /\ call.amount = (IF call.usage.input > call.usage.cached THEN (call.usage.input - call.usage.cached) * prices[i].input ELSE 0)
                        + (IF call.usage.output > 0 THEN call.usage.output * prices[i].output ELSE 0)
                        + (IF call.usage.cached > 0 THEN call.usage.cached * prices[i].cache ELSE 0)

\* "Without laundering one unknown component into a free call": the total is stated only if every
\* call's cost is known, it is exact only if every one is, and adding up in parts or at once says
\* the same.
TotalsAreHonest ==
  Len(ledger) > 0 =>
    LET all == Aggregate(ledger)
        part(k) == LET a == Aggregate(SubSeq(ledger, 1, k)) b == Aggregate(SubSeq(ledger, k + 1, Len(ledger)))
                   IN Aggregate(<<[status |-> a.cost.status, amount |-> a.subtotal, unknown |-> a.unknown],
                                  [status |-> b.cost.status, amount |-> b.subtotal, unknown |-> b.unknown]>>)
    IN /\ all.cost.status # "UNKNOWN" => \A n \in DOMAIN ledger : ledger[n].status # "UNKNOWN"
       /\ all.cost.status = "EXACT" => \A n \in DOMAIN ledger : ledger[n].status = "EXACT"
       /\ \A k \in 1..(Len(ledger) - 1) : part(k) = all

\* From a price source to the total of a run.
CostIsHonest == WalksAdmitTheBounded /\ EstimateIsTheUse /\ TotalsAreHonest
=============================================================================
