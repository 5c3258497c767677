------------------------ MODULE PoolDiscoveryProofs ------------------------
(***************************************************************************)
(* What the look-ups of PoolDiscovery keep to, for any pools, any lag of   *)
(* the nodes and any steps of other clients in between.                    *)
(***************************************************************************)
EXTENDS PoolDiscovery, FiniteSetTheorems, TLAPS

(* What a pool was shown to be it still is, at least.                      *)
Shown == \A e \in listing : e.status = "initialized" => status[e.id] = "initialized"

(* The markets asked for are those of the pools shown: of all that are     *)
(* initialised, and in a search of no others; in a fetch, of the one asked *)
(* for.                                                                    *)
Asked ==
    /\ \A i \in DOMAIN temp :
          /\ temp[i] \in listing
          /\ asked \in Pairs => temp[i].status = "initialized"
          /\ asked \in Pools => temp[i].id = asked
    /\ pc \in {"join", "market", "done"} =>
          \A e \in listing : e.status = "initialized" =>
              \E i \in DOMAIN temp : temp[i] = e

(* Which variables the client has not reached yet.                         *)
Phases ==
    /\ IF pc = "idle" THEN asked = Null ELSE asked \in Pairs \cup Pools
    /\ pc \in {"list", "join"} => asked \in Pairs
    /\ pc \in {"account", "market"} => asked \in Pools
    /\ pc \in {"idle", "list", "account"} => listing = {} /\ temp = <<>>
    /\ pc # "done" => keys = <<>> /\ answers = <<>> /\ outcome = Null
    /\ pc = "market" =>
          Len(temp) = 1 /\ temp[1].id = asked /\ listing = {temp[1]}

Answers ==
    \A i \in DOMAIN answers :
        /\ i \in DOMAIN temp
        /\ answers[i] # Null => answers[i] = MarketOf(temp[i])
        /\ answers[i] \in Pools => answers[i] \in markets
        /\ answers[i] = Null => temp[i].status = "initialized"

Keys ==
    /\ keys # <<>> => Len(keys) = Len(temp)
    /\ \A i \in DOMAIN keys :
          /\ i \in DOMAIN temp
          /\ keys[i] = [id |-> temp[i].id, market |-> MarketOf(temp[i])]
          /\ temp[i].status = "initialized" => temp[i].id \in markets

Ended ==
    /\ asked \in Pairs /\ outcome = "threw" => \E i \in DOMAIN answers : answers[i] = Null
    /\ asked \in Pairs /\ outcome = "none" /\ swallowed = {} =>
          Len(keys) = Len(temp) /\ \A i \in DOMAIN keys : ~Matches(keys[i])
    /\ asked \in Pools => outcome # "none"
    /\ outcome \in Pools =>
          \E i \in DOMAIN keys :
              /\ keys[i].id = outcome
              /\ asked \in Pairs => Matches(keys[i])
              /\ asked \in Pools => outcome = asked

Inv == TypeOK /\ Shown /\ Asked /\ Phases /\ Answers /\ Keys /\ Ended

-----------------------------------------------------------------------------
(* Every non-empty set of positions has a first.                           *)
LEMMA FirstPosition ==
    ASSUME NEW I \in SUBSET Nat, I # {}
    PROVE  Min(I) \in I
<1>1. \E x \in I : \A y \in I : ~(<<y, x>> \in OpToRel(<, Nat))
    BY NatLessThanWellFounded, WFMin
<1>2. ASSUME NEW x \in Nat, NEW y \in Nat, y < x
      PROVE  <<y, x>> \in OpToRel(<, Nat)
    BY <1>2 DEF OpToRel
<1>3. \E x \in I : \A y \in I : ~(y < x)
    BY <1>1, <1>2
<1>4. \E x \in I : \A y \in I : x <= y
    BY <1>3
<1> QED
    BY <1>4 DEF Min

(* An ordering of a finite set leaves nothing out.                         *)
LEMMA OrderingIsWhole ==
    ASSUME NEW S, IsFiniteSet(S), NEW f \in SetToSeqs(S)
    PROVE  /\ f \in Seq(S)
           /\ \A x \in S : \E i \in DOMAIN f : f[i] = x
<1> DEFINE n == Cardinality(S)
<1>1. n \in Nat
    BY FS_CardinalityType
<1>2. f \in [1 .. n -> S] /\ \A i, j \in 1 .. n : i # j => f[i] # f[j]
    BY DEF SetToSeqs
<1>3. IsFiniteSet(1 .. n) /\ Cardinality(1 .. n) = n
    BY <1>1, FS_Interval
<1>4. f \in Injection(1 .. n, S)
    BY <1>2 DEF Injection, IsInjective
<1>5. f \in Surjection(1 .. n, S)
    BY <1>3, <1>4, FS_Injection
<1> QED
    BY <1>1, <1>2, <1>5 DEF Surjection

(* A sequence is one of whatever all its elements are.                     *)
LEMMA TypeOfSeq ==
    ASSUME NEW S, NEW T, NEW s \in Seq(T)
    PROVE  (\A i \in DOMAIN s : s[i] \in S) => s \in Seq(S)
OBVIOUS

LEMMA TypeOfOne ==
    ASSUME NEW S, NEW x \in S
    PROVE  <<x>> \in Seq(S)
OBVIOUS

(* find returns a match, or there is none.                                 *)
LEMMA Search ==
    ASSUME NEW list \in Seq([id: Pools, market: Pools \cup {DefaultKey}])
    PROVE  \/ /\ Found(list) = "none"
              /\ \A i \in DOMAIN list : ~Matches(list[i])
           \/ \E i \in DOMAIN list : Matches(list[i]) /\ Found(list) = list[i].id
<1> DEFINE I == {i \in 1 .. Len(list) : Matches(list[i])}
<1>1. SelectInSeq(list, Matches) = IF I # {} THEN Min(I) ELSE 0
    BY DEF SelectInSeq
<1>2. CASE I = {}
    BY <1>1, <1>2 DEF Found
<1>3. CASE I # {}
    <2>1. Min(I) \in I
        <3>1. I \in SUBSET Nat
            OBVIOUS
        <3> HIDE DEF I
        <3> QED
            BY <1>3, <3>1, FirstPosition
    <2> HIDE DEF I
    <2>2. SelectInSeq(list, Matches) = Min(I)
        BY <1>1, <1>3
    <2> USE DEF I
    <2>3. Min(I) # 0 /\ Min(I) \in DOMAIN list /\ Matches(list[Min(I)])
        BY <2>1
    <2> QED
        BY <2>2, <2>3 DEF Found
<1> QED
    BY <1>2, <1>3

(* Only finitely many pools are kept of a listing.                         *)
LEMMA KeptIsFinite ==
    ASSUME NEW shown \in SUBSET Entries
    PROVE  IsFiniteSet(Kept(shown))
<1> DEFINE f == [e \in Kept(shown) |-> e.id]
<1>1. f \in [Kept(shown) -> Pools]
    BY DEF Kept, Entries
<1>2. \A d, e \in Kept(shown) : f[d] = f[e] => d = e
    <2> SUFFICES ASSUME NEW d \in Kept(shown), NEW e \in Kept(shown), f[d] = f[e]
                 PROVE  d = e
        OBVIOUS
    <2>1. /\ d = [id |-> d.id, status |-> d.status] /\ e = [id |-> e.id, status |-> e.status]
          /\ d.status = "initialized" /\ e.status = "initialized"
        BY DEF Kept, Entries
    <2> QED
        BY <2>1
<1>3. f \in Injection(Kept(shown), Pools)
    BY <1>1, <1>2 DEF Injection, IsInjective
<1> QED
    BY <1>3, FS_Injection, DiscoveryAssumption

-----------------------------------------------------------------------------
LEMMA InitInv == Init => Inv
<1> SUFFICES ASSUME Init PROVE Inv
    OBVIOUS
<1> USE DEF Init
<1>1. TypeOK
    BY DEF TypeOK, Statuses
<1>2. Shown /\ Asked /\ Phases
    BY DEF Shown, Asked, Phases
<1>3. Answers /\ Keys
    BY DEF Answers, Keys
<1>4. Ended
    BY DiscoveryAssumption DEF Ended
<1> QED
    BY <1>1, <1>2, <1>3, <1>4 DEF Inv

(* Other clients only add to what a node may have shown.                   *)
LEMMA ChainKeeps == Inv /\ Chain => Inv'
<1> SUFFICES ASSUME Inv, NEW p \in Pools,
                    CreateMarket(p) \/ CreatePool(p) \/ InitializePool(p)
             PROVE  Inv'
    BY DEF Chain
<1>1. /\ status' \in [Pools -> Statuses] /\ markets' \subseteq Pools
      /\ markets \subseteq markets'
      /\ \A q \in Pools : status[q] = "initialized" => status'[q] = "initialized"
      /\ UNCHANGED callVars
    BY DEF CreateMarket, CreatePool, InitializePool, Inv, TypeOK, Statuses
<1>2. TypeOK'
    BY <1>1 DEF callVars, Inv, TypeOK
<1>3. Shown'
    BY <1>1 DEF callVars, Inv, TypeOK, Shown, Entries
<1>4. Asked' /\ Phases'
    BY <1>1 DEF callVars, Inv, Asked, Phases
<1>5. Answers' /\ Keys'
    BY <1>1 DEF callVars, Inv, Answers, Keys
<1>6. Ended'
    BY <1>1 DEF callVars, Inv, Ended, Matches
<1> QED
    BY <1>2, <1>3, <1>4, <1>5, <1>6 DEF Inv

Start == (\E pair \in Pairs : Find(pair)) \/ (\E p \in Pools : FetchPoolKeys(p))

LEMMA StartKeeps == Inv /\ Start => Inv'
<1> SUFFICES ASSUME Inv, NEW x,
                    (x \in Pairs /\ Find(x)) \/ (x \in Pools /\ FetchPoolKeys(x))
             PROVE  Inv'
    BY DEF Start
<1> USE DEF Find, FetchPoolKeys, chainVars
<1>1. TypeOK'
    BY DEF Inv, TypeOK
<1>2. Shown'
    BY DEF Inv, Shown, Phases
<1>3. Asked'
    BY DEF Inv, Asked, Phases
<1>4. Phases'
    BY DEF Inv, Phases
<1>5. Answers' /\ Keys'
    BY DEF Inv, Answers, Keys, Phases
<1>6. Ended'
    BY DiscoveryAssumption DEF Inv, Ended, Phases
<1> QED
    BY <1>1, <1>2, <1>3, <1>4, <1>5, <1>6 DEF Inv

LEMMA ListKeeps == Inv /\ GetProgramAccounts => Inv'
<1> SUFFICES ASSUME Inv, GetProgramAccounts PROVE Inv'
    OBVIOUS
<1> USE DEF GetProgramAccounts, chainVars
<1>1. PICK view \in [Pools -> Statuses] :
          /\ \A p \in Pools : view[p] \in Seen(p)
          /\ listing' = {e \in Entries : view[e.id] = e.status}
    BY DEF Listings
<1>2. listing' \subseteq Entries
    BY <1>1
<1>3. /\ temp' \in Seq(Kept(listing'))
      /\ \A e \in Kept(listing') : \E i \in DOMAIN temp' : temp'[i] = e
    <2>1. temp' \in SetToSeqs(Kept(listing')) /\ IsFiniteSet(Kept(listing'))
        BY <1>2, KeptIsFinite
    <2> QED
        BY <2>1, OrderingIsWhole
<1>4. \A i \in DOMAIN temp' : temp'[i] \in Kept(listing')
    BY <1>3
<1>5. \A e \in Entries : e.status # "created" <=> e.status = "initialized"
    BY DEF Entries
<1>6. Kept(listing') = {e \in listing' : e.status = "initialized"}
    BY <1>2, <1>5 DEF Kept
<1>7. temp' \in Seq(Entries)
    <2>1. Kept(listing') \subseteq Entries
        BY <1>2, <1>6
    <2> QED
        BY <1>3, <2>1
<1>8. TypeOK'
    BY <1>2, <1>7 DEF Inv, TypeOK
<1>9. Shown'
    <2> SUFFICES ASSUME NEW e \in listing', e.status = "initialized"
                 PROVE  status[e.id] = "initialized"
        BY DEF Shown
    <2>1. e.id \in Pools /\ view[e.id] = "initialized"
        BY <1>1 DEF Entries
    <2>2. "initialized" \in Seen(e.id) /\ status[e.id] \in Statuses
        BY <1>1, <2>1 DEF Inv, TypeOK
    <2> QED
        BY <2>2 DEF Seen, Statuses
<1>10. Asked'
    <2>1. asked \notin Pools
        BY DiscoveryAssumption DEF Inv, Phases
    <2> QED
        BY <1>3, <1>4, <1>6, <2>1 DEF Asked
<1>11. Phases'
    BY DEF Inv, Phases
<1>12. Answers' /\ Keys'
    BY DEF Inv, Phases, Answers, Keys
<1>13. Ended'
    BY DiscoveryAssumption DEF Inv, Phases, Ended
<1> QED
    BY <1>8, <1>9, <1>10, <1>11, <1>12, <1>13 DEF Inv

LEMMA ListFailsKeeps == Inv /\ GetProgramAccountsFails => Inv'
<1> SUFFICES ASSUME Inv, GetProgramAccountsFails PROVE Inv'
    OBVIOUS
<1> USE DEF GetProgramAccountsFails, chainVars
<1>1. TypeOK'
    BY DEF Inv, TypeOK
<1>2. Shown' /\ Asked'
    BY DEF Inv, Shown, Asked, Phases
<1>3. Phases'
    BY DEF Inv, Phases
<1>4. Answers' /\ Keys'
    BY DEF Inv, Phases, Answers, Keys
<1>5. Ended'
    BY DiscoveryAssumption DEF Inv, Phases, Ended
<1> QED
    BY <1>1, <1>2, <1>3, <1>4, <1>5 DEF Inv

(* The second answer, of the same length as the question or none at all.   *)
LEMMA AnsweredKeeps ==
    ASSUME Inv, pc = "join", NEW infos,
           \/ /\ infos \in [DOMAIN temp -> Pools \cup {DefaultKey, Null}]
              /\ \A i \in DOMAIN temp : infos[i] \in MarketAnswers(temp[i])
              /\ UNCHANGED swallowed
           \/ infos = <<>> /\ swallowed' = swallowed \cup {"join"},
           Answered(infos)
    PROVE  Inv'
<1> DEFINE joined == Joined(temp, infos)
<1>1. /\ answers' = infos /\ pc' = "done"
      /\ keys' = IF Throws(joined) THEN <<>> ELSE joined
      /\ outcome' = IF Throws(joined) THEN "threw" ELSE Found(joined)
      /\ UNCHANGED <<status, markets, asked, known, listing, temp>>
    BY DEF Answered, chainVars
<1>2. asked \in Pairs /\ asked \notin Pools
    BY DiscoveryAssumption DEF Inv, Phases
<1>3. temp \in Seq(Entries) /\ DOMAIN temp = 1 .. Len(temp) /\ Len(temp) \in Nat
    BY DEF Inv, TypeOK
<1>4. \/ infos \in [1 .. Len(temp) -> Pools \cup {DefaultKey, Null}]
      \/ infos = <<>> /\ "join" \in swallowed'
    BY <1>3
<1>5. /\ infos \in Seq(Pools \cup {DefaultKey, Null})
      /\ Len(infos) = Len(temp) \/ (infos = <<>> /\ "join" \in swallowed')
      /\ \A i \in DOMAIN infos : i \in DOMAIN temp /\ temp[i] \in Entries
    <2>1. CASE infos \in [1 .. Len(temp) -> Pools \cup {DefaultKey, Null}]
        BY <1>3, <2>1
    <2>2. CASE infos = <<>> /\ "join" \in swallowed'
        BY <2>2
    <2> QED
        BY <1>4, <2>1, <2>2
<1>6. \A i \in DOMAIN infos :
          /\ temp[i].id \in Pools /\ temp[i].status = "initialized"
          /\ infos[i] \in Pools \cup {Null}
          /\ infos[i] # Null => infos[i] = temp[i].id /\ infos[i] \in markets
    <2> SUFFICES ASSUME NEW i \in DOMAIN infos
                 PROVE  /\ temp[i].id \in Pools /\ temp[i].status = "initialized"
                        /\ infos[i] \in Pools \cup {Null}
                        /\ infos[i] # Null => infos[i] = temp[i].id /\ infos[i] \in markets
        OBVIOUS
    <2>1. temp[i].id \in Pools
        BY <1>5 DEF Entries
    <2>2. temp[i].status = "initialized"
        BY <1>2, <1>5 DEF Inv, Asked
    <2>3. infos[i] \in MarketAnswers(temp[i])
        BY <1>5
    <2>4. MarketOf(temp[i]) = temp[i].id /\ temp[i].id # DefaultKey
        BY <2>1, <2>2, DiscoveryAssumption DEF MarketOf
    <2> QED
        BY <2>1, <2>2, <2>3, <2>4 DEF MarketAnswers
<1>7. /\ \A i \in DOMAIN infos : joined[i] = [id |-> temp[i].id, market |-> infos[i]]
      /\ DOMAIN joined = DOMAIN infos /\ Len(joined) = Len(infos)
      /\ joined \in Seq([id: Pools, market: Pools \cup {Null}])
    <2>1. joined = [i \in 1 .. Len(infos) |-> [id |-> temp[i].id, market |-> infos[i]]]
        BY <1>5 DEF Joined
    <2>2. joined \in [1 .. Len(infos) -> [id: Pools, market: Pools \cup {Null}]]
        BY <1>5, <1>6, <2>1
    <2> QED
        BY <1>5, <2>1, <2>2
<1> HIDE DEF joined
<1>8. ~Throws(joined) =>
          /\ \A i \in DOMAIN joined :
                 /\ joined[i] = [id |-> temp[i].id, market |-> temp[i].id]
                 /\ temp[i].id \in markets /\ temp[i].status = "initialized"
          /\ joined \in Seq([id: Pools, market: Pools \cup {DefaultKey}])
    <2> SUFFICES ASSUME ~Throws(joined)
                 PROVE  /\ \A i \in DOMAIN joined :
                              /\ joined[i] = [id |-> temp[i].id, market |-> temp[i].id]
                              /\ temp[i].id \in markets /\ temp[i].status = "initialized"
                        /\ joined \in Seq([id: Pools, market: Pools \cup {DefaultKey}])
        OBVIOUS
    <2>1. \A i \in DOMAIN joined : infos[i] # Null
        BY <1>7 DEF Throws
    <2>2. \A i \in DOMAIN joined :
              /\ joined[i] = [id |-> temp[i].id, market |-> temp[i].id]
              /\ temp[i].id \in markets /\ temp[i].status = "initialized"
              /\ temp[i].id \in Pools
        BY <1>6, <1>7, <2>1
    <2>3. \A i \in DOMAIN joined : joined[i] \in [id: Pools, market: Pools \cup {DefaultKey}]
        <3> SUFFICES ASSUME NEW i \in DOMAIN joined
                     PROVE  joined[i] \in [id: Pools, market: Pools \cup {DefaultKey}]
            OBVIOUS
        <3>1. joined[i] = [id |-> temp[i].id, market |-> temp[i].id] /\ temp[i].id \in Pools
            BY <2>2
        <3> QED
            BY <3>1
    <2>4. joined \in Seq([id: Pools, market: Pools \cup {DefaultKey}])
        BY <1>7, <2>3, TypeOfSeq
    <2> QED
        BY <2>2, <2>4
<1>9. ~Throws(joined) =>
          \/ Found(joined) = "none" /\ \A i \in DOMAIN joined : ~Matches(joined[i])
          \/ \E i \in DOMAIN joined : Matches(joined[i]) /\ Found(joined) = joined[i].id
    BY <1>8, Search
<1>10. TypeOK'
    <2>1. keys' \in Seq([id: Pools, market: Pools \cup {DefaultKey}])
        BY <1>1, <1>8
    <2>2. outcome' \in {Null, "threw", "none"} \cup Pools
        <3>1. \A i \in DOMAIN joined : joined[i].id \in Pools
            BY <1>7
        <3> QED
            BY <1>1, <1>9, <3>1
    <2>3. swallowed' \subseteq {"list", "join"}
        BY DEF Inv, TypeOK
    <2> QED
        BY <1>1, <1>5, <2>1, <2>2, <2>3 DEF Inv, TypeOK
<1>11. Shown' /\ Asked' /\ Phases'
    BY <1>1, <1>2 DEF Inv, Shown, Asked, Phases
<1>12. Answers'
    <2> SUFFICES ASSUME NEW i \in DOMAIN infos
                 PROVE  /\ i \in DOMAIN temp
                        /\ infos[i] # Null => infos[i] = MarketOf(temp[i])
                        /\ infos[i] \in Pools => infos[i] \in markets
                        /\ infos[i] = Null => temp[i].status = "initialized"
        BY <1>1 DEF Answers, MarketOf
    <2>1. temp[i].status = "initialized" /\ i \in DOMAIN temp
        BY <1>5, <1>6
    <2>2. infos[i] # Null => infos[i] = temp[i].id /\ infos[i] \in markets
        BY <1>6
    <2> QED
        BY <2>1, <2>2, DiscoveryAssumption DEF MarketOf
<1>13. Keys'
    <2>1. CASE Throws(joined)
        BY <1>1, <2>1 DEF Keys
    <2>2. CASE ~Throws(joined)
        <3>1. keys' = joined
            BY <1>1, <2>2
        <3>2. joined # <<>> => Len(joined) = Len(temp)
            BY <1>5, <1>7
        <3>3. \A i \in DOMAIN joined : i \in DOMAIN temp
            BY <1>5, <1>7
        <3> QED
            BY <1>1, <1>8, <2>2, <3>1, <3>2, <3>3 DEF Keys, MarketOf
    <2> QED
        BY <2>1, <2>2
<1>14. Ended'
    <2>1. CASE Throws(joined)
        <3>1. \E i \in DOMAIN infos : infos[i] = Null
            BY <1>7, <2>1 DEF Throws
        <3> QED
            BY <1>1, <1>2, <2>1, <3>1, DiscoveryAssumption DEF Ended
    <2>2. CASE ~Throws(joined)
        <3>1. keys' = joined /\ outcome' = Found(joined)
            BY <1>1, <2>2
        <3>2. \A k : Matches(k)' <=> Matches(k)
            BY <1>1 DEF Matches
        <3>3. swallowed' = {} => Len(joined) = Len(temp)
            BY <1>5, <1>7
        <3>4. \A i \in DOMAIN joined : joined[i].id \in Pools
            BY <1>7
        <3> QED
            BY <1>1, <1>2, <1>9, <2>2, <3>1, <3>2, <3>3, <3>4, DiscoveryAssumption DEF Ended
    <2> QED
        BY <2>1, <2>2
<1> QED
    BY <1>10, <1>11, <1>12, <1>13, <1>14 DEF Inv

LEMMA GetAccountKeeps == Inv /\ GetAccount => Inv'
<1> SUFFICES ASSUME Inv, GetAccount PROVE Inv'
    OBVIOUS
<1> USE DEF GetAccount, chainVars
<1>1. PICK shown \in Seen(asked) \ {"absent"} :
          /\ listing' = {[id |-> asked, status |-> shown]}
          /\ temp' = <<[id |-> asked, status |-> shown]>>
    OBVIOUS
<1>2. asked \in Pools /\ asked \notin Pairs /\ status[asked] \in Statuses
    BY DiscoveryAssumption DEF Inv, TypeOK, Phases
<1>3. shown \in {"created", "initialized"}
      /\ (shown = "initialized" => status[asked] = "initialized")
    BY <1>2 DEF Seen, Statuses
<1>4. TypeOK'
    <2>1. [id |-> asked, status |-> shown] \in Entries
        BY <1>2, <1>3 DEF Entries
    <2>2. listing' \subseteq Entries /\ temp' \in Seq(Entries)
        BY <1>1, <2>1
    <2> QED
        BY <2>2 DEF Inv, TypeOK
<1>5. Shown'
    BY <1>1, <1>3 DEF Shown
<1>6. Asked'
    BY <1>1, <1>2 DEF Asked
<1>7. Phases'
    BY <1>1, <1>2 DEF Inv, Phases
<1>8. Answers' /\ Keys'
    BY DEF Inv, Phases, Answers, Keys
<1>9. Ended'
    BY <1>2, DiscoveryAssumption DEF Inv, Phases, Ended
<1> QED
    BY <1>4, <1>5, <1>6, <1>7, <1>8, <1>9 DEF Inv

LEMMA GetMarketKeeps == Inv /\ GetMarket => Inv'
<1> SUFFICES ASSUME Inv, GetMarket PROVE Inv'
    OBVIOUS
<1> USE DEF GetMarket, chainVars
<1>1. /\ asked \in Pools /\ asked \notin Pairs
      /\ temp \in Seq(Entries) /\ Len(temp) = 1 /\ temp[1].id = asked
    BY DiscoveryAssumption DEF Inv, TypeOK, Phases
<1> DEFINE market == MarketOf(temp[1])
<1>2. /\ market \in Pools \cup {DefaultKey} /\ market # Null
      /\ market \in Pools => market \in markets
      /\ temp[1].status = "initialized" => market = asked /\ asked \in markets
      /\ answers' = <<market>> /\ outcome' = asked
    <2>1. PICK info \in MarketAnswers(temp[1]) \ {Null} : answers' = <<info>>
        OBVIOUS
    <2>2. CASE temp[1].status = "initialized"
        <3>1. market = asked /\ asked # DefaultKey
            BY <1>1, <2>2, DiscoveryAssumption DEF MarketOf
        <3>2. info = asked /\ asked \in markets
            BY <1>1, <2>1, <3>1 DEF MarketAnswers
        <3> QED
            BY <1>1, <2>1, <3>1, <3>2, DiscoveryAssumption
    <2>3. CASE temp[1].status # "initialized"
        <3>1. market = DefaultKey
            BY <2>3 DEF MarketOf
        <3>2. info = DefaultKey
            BY <2>1, <3>1 DEF MarketAnswers
        <3> QED
            BY <2>1, <2>3, <3>1, <3>2, DiscoveryAssumption
    <2> QED
        BY <2>2, <2>3
<1> HIDE DEF market
<1>4. keys' = <<[id |-> asked, market |-> market]>>
    BY <1>1, <1>2 DEF Joined
<1>5. TypeOK'
    <2>1. [id |-> asked, market |-> market] \in [id: Pools, market: Pools \cup {DefaultKey}]
        BY <1>1, <1>2
    <2>2. keys' \in Seq([id: Pools, market: Pools \cup {DefaultKey}])
        BY <1>4, <2>1, TypeOfOne
    <2>3. answers' \in Seq(Pools \cup {DefaultKey, Null})
        BY <1>2
    <2> QED
        BY <1>1, <1>2, <2>2, <2>3 DEF Inv, TypeOK
<1>6. Shown' /\ Asked'
    BY <1>1 DEF Inv, Shown, Asked
<1>7. Phases'
    BY <1>1 DEF Inv, Phases
<1>8. Answers'
    BY <1>1, <1>2 DEF Answers, market
<1>9. Keys'
    BY <1>1, <1>2, <1>4 DEF Keys, market
<1>10. Ended'
    <2>1. 1 \in DOMAIN keys' /\ keys'[1].id = asked
        BY <1>4
    <2> QED
        BY <1>1, <1>2, <2>1, DiscoveryAssumption DEF Ended
<1> QED
    BY <1>5, <1>6, <1>7, <1>8, <1>9, <1>10 DEF Inv

LEMMA FetchThrowsKeeps == Inv /\ FetchThrows => Inv'
<1> SUFFICES ASSUME Inv, FetchThrows PROVE Inv'
    OBVIOUS
<1> USE DEF FetchThrows, chainVars
<1>1. asked \in Pools /\ asked \notin Pairs
    BY DiscoveryAssumption DEF Inv, Phases
<1>2. TypeOK'
    BY DEF Inv, TypeOK
<1>3. Shown'
    BY DEF Inv, Shown
<1>4. Asked'
    BY <1>1 DEF Inv, Asked, Phases
<1>5. Phases'
    BY <1>1 DEF Inv, Phases
<1>6. Answers' /\ Keys'
    BY DEF Inv, Phases, Answers, Keys
<1>7. Ended'
    BY <1>1, DiscoveryAssumption DEF Ended
<1> QED
    BY <1>2, <1>3, <1>4, <1>5, <1>6, <1>7 DEF Inv

LEMMA NextKeeps == Inv /\ [Next]_vars => Inv'
<1> SUFFICES ASSUME Inv, [Next]_vars PROVE Inv'
    OBVIOUS
<1>1. CASE UNCHANGED vars
    <2> USE <1>1 DEF vars
    <2>1. TypeOK' /\ Shown' /\ Asked' /\ Phases'
        BY DEF Inv, TypeOK, Shown, Asked, Phases
    <2>2. Answers' /\ Keys' /\ Ended'
        BY DEF Inv, Answers, Keys, Ended, Matches
    <2> QED
        BY <2>1, <2>2 DEF Inv
<1>2. CASE Chain
    BY <1>2, ChainKeeps
<1>3. CASE Start
    BY <1>3, StartKeeps
<1>4. CASE GetProgramAccounts \/ GetProgramAccountsFails
    BY <1>4, ListKeeps, ListFailsKeeps
<1>5. CASE GetMarkets
    BY <1>5, AnsweredKeeps DEF GetMarkets
<1>6. CASE GetMarketsFails
    <2>1. pc = "join" /\ Answered(<<>>) /\ swallowed' = swallowed \cup {"join"}
        BY <1>6 DEF GetMarketsFails
    <2> QED
        BY <2>1, AnsweredKeeps
<1>7. CASE GetAccount \/ GetMarket \/ FetchThrows
    BY <1>7, GetAccountKeeps, GetMarketKeeps, FetchThrowsKeeps
<1> QED
    BY <1>1, <1>2, <1>3, <1>4, <1>5, <1>6, <1>7 DEF Next, Call, Start

LEMMA Always == Spec => []Inv
<1> QED
    BY InitInv, NextKeeps, PTL DEF Spec

-----------------------------------------------------------------------------
(* Every state of a look-up is of its type: no pool gets keys of Null.     *)
THEOREM Typed == Spec => []TypeOK
<1>1. Inv => TypeOK
    BY DEF Inv
<1> QED
    BY <1>1, Always, PTL

(* The pool that a search returns is the one asked for, on chain and       *)
(* initialised, with its market.                                           *)
THEOREM FoundRightly == Spec => []FoundIsAsked
<1>1. Inv => FoundIsAsked
    <2> SUFFICES ASSUME Inv, asked \in Pairs, outcome \in Pools PROVE FoundIsAsked
        BY DEF FoundIsAsked
    <2>1. PICK i \in DOMAIN keys : keys[i].id = outcome /\ Matches(keys[i])
        BY DEF Inv, Ended
    <2>2. temp[i].id = outcome /\ temp[i].status = "initialized" /\ temp[i] \in listing
          /\ outcome \in markets
        BY <2>1 DEF Inv, Keys, Asked
    <2> QED
        BY <2>1, <2>2 DEF Inv, Shown, FoundIsAsked, Matches
<1> QED
    BY <1>1, Always, PTL

(* Blank keys come from fetchPoolKeys alone and show it; all other keys are *)
(* of an initialised pool and its own market.                              *)
THEOREM BlankRightly == Spec => []BlankOnlyFetched
<1>1. Inv => BlankOnlyFetched
    <2> SUFFICES ASSUME Inv, NEW i \in DOMAIN keys
                 PROVE  \/ /\ keys[i].market = keys[i].id /\ keys[i].id \in markets
                           /\ status[keys[i].id] = "initialized"
                        \/ keys[i].market = DefaultKey /\ keys[i].id = asked
        BY DEF BlankOnlyFetched
    <2>1. /\ i \in DOMAIN temp /\ temp[i] \in listing
          /\ keys[i] = [id |-> temp[i].id, market |-> MarketOf(temp[i])]
          /\ temp[i].status = "initialized" => temp[i].id \in markets
        BY DEF Inv, Keys, Asked
    <2>2. CASE temp[i].status = "initialized"
        BY <2>1, <2>2 DEF Inv, Shown, MarketOf
    <2>3. CASE temp[i].status # "initialized"
        <3>1. asked \notin Pairs
            BY <2>1, <2>3 DEF Inv, Asked
        <3>2. pc # "idle"
            BY DEF Inv, Phases
        <3>3. asked \in Pools
            BY <3>1, <3>2 DEF Inv, Phases
        <3>4. temp[i].id = asked
            BY <2>1, <3>3 DEF Inv, Asked
        <3> QED
            BY <2>1, <2>3, <3>4 DEF MarketOf
    <2> QED
        BY <2>2, <2>3
<1> QED
    BY <1>1, Always, PTL

(* A listing is whole or empty.                                            *)
THEOREM NeverInPart == Spec => []AllOrNothing
<1>1. Inv => AllOrNothing
    <2> SUFFICES ASSUME Inv, keys # <<>>, NEW e \in listing, e.status = "initialized"
                 PROVE  \E j \in DOMAIN keys : keys[j].id = e.id
        BY DEF AllOrNothing
    <2>1. pc = "done" /\ keys \in Seq([id: Pools, market: Pools \cup {DefaultKey}]) /\ temp \in Seq(Entries)
        BY DEF Inv, Phases, TypeOK
    <2>2. PICK i \in DOMAIN temp : temp[i] = e
        BY <2>1 DEF Inv, Asked
    <2>3. i \in DOMAIN keys /\ keys[i].id = e.id
        BY <2>1, <2>2 DEF Inv, Keys
    <2> QED
        BY <2>3
<1> QED
    BY <1>1, Always, PTL

(* Pools that are being set up never make a search throw.                  *)
THEOREM MarketMissing == Spec => []ThrowsForMarketOnly
<1>1. Inv => ThrowsForMarketOnly
    BY DEF Inv, Ended, Answers, Asked, ThrowsForMarketOnly
<1> QED
    BY <1>1, Always, PTL

(* Without a failure, what is not found was not shown.                     *)
THEOREM NotFoundRightly == Spec => []NotFoundAsShown
<1>1. Inv => NotFoundAsShown
    <2> SUFFICES ASSUME Inv, outcome = "none", swallowed = {}, NEW e \in listing,
                        e.status = "initialized", e.id = TheMarket, PairOf[e.id] = asked
                 PROVE  FALSE
        BY DEF NotFoundAsShown
    <2>1. pc = "done" /\ asked \in Pairs
        BY DiscoveryAssumption DEF Inv, Phases, Ended
    <2>2. PICK i \in DOMAIN temp : temp[i] = e
        BY <2>1 DEF Inv, Asked
    <2>3. Len(keys) = Len(temp) /\ \A j \in DOMAIN keys : ~Matches(keys[j])
        BY <2>1 DEF Inv, Ended
    <2>4. keys \in Seq([id: Pools, market: Pools \cup {DefaultKey}]) /\ temp \in Seq(Entries)
        BY DEF Inv, TypeOK
    <2>5. i \in DOMAIN keys /\ keys[i].id = e.id
        BY <2>2, <2>3, <2>4 DEF Inv, Keys
    <2> QED
        BY <2>3, <2>5 DEF Matches
<1> QED
    BY <1>1, Always, PTL

=============================================================================
