--------------------------- MODULE PoolDiscovery ---------------------------
(***************************************************************************)
(* liquidity-util.ts: a client looks pools up while others set them up.    *)
(* findPoolIdByBaseAndQuoteMintDevnet lists the pools with one RPC call,   *)
(* asks for their markets with another, joins the two answers by index and *)
(* searches the result; fetchPoolKeys does the same for one pool by its    *)
(* address, without the check that leaves uninitialised pools out.  Other  *)
(* clients act between the calls, the nodes that answer may lag behind the *)
(* cluster, and a call may reject: the listing swallows that,              *)
(* fetchPoolKeys does not.                                                 *)
(*                                                                         *)
(* The address of a pool is derived from that of its market (getAssociated *)
(* Id), so a member of Pools stands for both.                              *)
(***************************************************************************)
EXTENDS SequencesExt, FiniteSets

CONSTANTS
    Pools,
    PairOf,         \* pool -> its base and quote mint
    TheMarket,      \* the market written into the search (liquidity-util.ts:247)
    Null            \* no such account

Pairs == {PairOf[p] : p \in Pools}

(* PublicKey.default, which a blank field holds.  It is also the address   *)
(* of the system program, an account that every node has.                  *)
DefaultKey == "default"

(* Pools, pairs, failures and the default key are told apart.              *)
ASSUME DiscoveryAssumption ==
    /\ IsFiniteSet(Pools)
    /\ TheMarket \in Pools
    /\ Null \notin Pools \cup Pairs \cup {"threw", "none", DefaultKey}
    /\ Pools \cap (Pairs \cup {"threw", "none", DefaultKey}) = {}

VARIABLES
    status,     \* pool -> "absent", "created" (status zero) or "initialized"
    markets,    \* the markets that exist
    pc,         \* which answer the client waits for
    asked,      \* the pair searched for, or the address of a pool
    known,      \* the pools that were initialised when the call was made
    listing,    \* the pools, as the first answer showed them
    temp,       \* those of them whose markets are asked for, in order
    answers,    \* the second answer: an account or Null, by index
    swallowed,  \* the calls whose failure was caught and dropped
    keys,       \* pools with the account read as their market
    outcome     \* a pool, "threw", or "none": no pool was found

chainVars == <<status, markets>>
callVars == <<pc, asked, known, listing, temp, answers, swallowed, keys, outcome>>
vars == <<status, markets, pc, asked, known, listing, temp, answers, swallowed, keys, outcome>>

Statuses == {"absent", "created", "initialized"}
Entries == [id: Pools, status: {"created", "initialized"}]

TypeOK ==
    /\ status \in [Pools -> Statuses]
    /\ markets \subseteq Pools
    /\ pc \in {"idle", "list", "join", "account", "market", "done"}
    /\ asked \in {Null} \cup Pairs \cup Pools
    /\ known \subseteq Pools
    /\ listing \subseteq Entries /\ temp \in Seq(Entries)
    /\ answers \in Seq(Pools \cup {DefaultKey, Null})
    /\ swallowed \subseteq {"list", "join"}
    /\ keys \in Seq([id: Pools, market: Pools \cup {DefaultKey}])
    /\ outcome \in {Null, "threw", "none"} \cup Pools

Init ==
    /\ status = [p \in Pools |-> "absent"]
    /\ markets = {}
    /\ pc = "idle"
    /\ asked = Null
    /\ known = {}
    /\ listing = {} /\ temp = <<>> /\ answers = <<>> /\ keys = <<>>
    /\ swallowed = {}
    /\ outcome = Null

-----------------------------------------------------------------------------
(* Other clients, as my-swap.ts: market, pool accounts, pool.              *)
CreateMarket(p) ==
    /\ p \notin markets
    /\ markets' = markets \cup {p}
    /\ UNCHANGED <<status, callVars>>

CreatePool(p) ==
    /\ status[p] = "absent"
    /\ status' = [status EXCEPT ![p] = "created"]
    /\ UNCHANGED <<markets, callVars>>

InitializePool(p) ==
    /\ status[p] = "created" /\ p \in markets
    /\ status' = [status EXCEPT ![p] = "initialized"]
    /\ UNCHANGED <<markets, callVars>>

(* What a node, however far behind, may show of the pools.                 *)
Seen(p) == CASE status[p] = "absent" -> {"absent"}
             [] status[p] = "created" -> {"absent", "created"}
             [] status[p] = "initialized" -> Statuses

Listings ==
    {{e \in Entries : view[e.id] = e.status} :
        view \in {f \in [Pools -> Statuses] : \A p \in Pools : f[p] \in Seen(p)}}

(* The market that a pool's fields name; those of an uninitialised pool    *)
(* are blank.                                                              *)
MarketOf(e) == IF e.status = "initialized" THEN e.id ELSE DefaultKey

(* What a node has at that address.                                        *)
MarketAnswers(e) ==
    IF MarketOf(e) = DefaultKey THEN {DefaultKey} ELSE {Null} \cup ({e.id} \cap markets)

-----------------------------------------------------------------------------
Find(pair) ==
    /\ pc = "idle"
    /\ asked' = pair
    /\ known' = {p \in Pools : status[p] = "initialized"}
    /\ pc' = "list"
    /\ UNCHANGED <<chainVars, listing, temp, answers, swallowed, keys, outcome>>

(* Variant: uninitialised pools are kept, as in fetchPoolKeys.              *)
KeptAll(shown) == shown
Kept(shown) == {e \in shown : e.status # "created"}

(* A node lists the pools in no particular order.                          *)
GetProgramAccounts ==
    /\ pc = "list"
    /\ listing' \in Listings
    /\ temp' \in SetToSeqs(Kept(listing'))
    /\ pc' = "join"
    /\ UNCHANGED <<chainVars, asked, known, answers, swallowed, keys, outcome>>

GetProgramAccountsFails ==
    /\ pc = "list"
    /\ swallowed' = swallowed \cup {"list"}
    /\ pc' = "join"
    /\ UNCHANGED <<chainVars, asked, known, listing, temp, answers, keys, outcome>>

(* Variants: nulls dropped once the answers are joined; the last index      *)
(* forgotten; a loop over the pools instead of the answers.                 *)
JoinedButNull(entries, infos) ==
    SelectSeq([i \in DOMAIN infos |-> [id |-> entries[i].id, market |-> infos[i]]],
              LAMBDA k : k.market # Null)
JoinedButLast(entries, infos) ==
    [i \in 1 .. Len(infos) - 1 |-> [id |-> entries[i].id, market |-> infos[i]]]
JoinedByPool(entries, infos) ==
    [i \in DOMAIN entries |->
        [id |-> entries[i].id, market |-> IF i \in DOMAIN infos THEN infos[i] ELSE Null]]
Joined(entries, infos) ==
    [i \in DOMAIN infos |-> [id |-> entries[i].id, market |-> infos[i]]]

(* Variant: any market of the pair will do.                                 *)
MatchesPair(k) == PairOf[k.id] = asked
Matches(k) == PairOf[k.id] = asked /\ k.id = TheMarket

(* find: the first that matches.                                           *)
Found(list) ==
    LET i == SelectInSeq(list, Matches)
    IN  IF i = 0 THEN "none" ELSE list[i].id

(* Taking the data of a market that is null throws, whichever pool is      *)
(* searched for.  Variant: the data of null is undefined.                   *)
ThrowsNot(list) == FALSE
Throws(list) == \E i \in DOMAIN list : list[i].market = Null

(* The rest of the two functions runs without a pause.                     *)
Answered(infos) ==
    LET joined == Joined(temp, infos)
    IN  /\ answers' = infos
        /\ keys' = IF Throws(joined) THEN <<>> ELSE joined
        /\ outcome' = IF Throws(joined) THEN "threw" ELSE Found(joined)
        /\ pc' = "done"
        /\ UNCHANGED <<chainVars, asked, known, listing, temp>>

GetMarkets ==
    /\ pc = "join"
    /\ \E infos \in [DOMAIN temp -> Pools \cup {DefaultKey, Null}] :
          /\ \A i \in DOMAIN temp : infos[i] \in MarketAnswers(temp[i])
          /\ Answered(infos)
    /\ UNCHANGED swallowed

GetMarketsFails ==
    /\ pc = "join"
    /\ temp # <<>>
    /\ Answered(<<>>)
    /\ swallowed' = swallowed \cup {"join"}

-----------------------------------------------------------------------------
FetchPoolKeys(p) ==
    /\ pc = "idle"
    /\ asked' = p
    /\ known' = {q \in Pools : status[q] = "initialized"}
    /\ pc' = "account"
    /\ UNCHANGED <<chainVars, listing, temp, answers, swallowed, keys, outcome>>

(* The status is not looked at: the check is commented out.                *)
GetAccount ==
    /\ pc = "account"
    /\ \E shown \in Seen(asked) \ {"absent"} :
          LET e == [id |-> asked, status |-> shown]
          IN  listing' = {e} /\ temp' = <<e>>
    /\ pc' = "market"
    /\ UNCHANGED <<chainVars, asked, known, answers, swallowed, keys, outcome>>

(* Whatever account is at the market's address is decoded as a market: of  *)
(* a blank pool that is the system program, whose data, though shorter,    *)
(* decodes as well.                                                        *)
GetMarket ==
    /\ pc = "market"
    /\ \E info \in MarketAnswers(temp[1]) \ {Null} : answers' = <<info>>
    /\ keys' = Joined(temp, answers')
    /\ outcome' = asked
    /\ pc' = "done"
    /\ UNCHANGED <<chainVars, asked, known, listing, temp, swallowed>>

(* A call rejects, or an account is null.                                  *)
FetchThrows ==
    /\ pc \in {"account", "market"}
    /\ outcome' = "threw"
    /\ pc' = "done"
    /\ UNCHANGED <<chainVars, asked, known, listing, temp, answers, swallowed, keys>>

Call ==
    \/ \E pair \in Pairs : Find(pair)
    \/ GetProgramAccounts \/ GetProgramAccountsFails
    \/ GetMarkets \/ GetMarketsFails
    \/ \E p \in Pools : FetchPoolKeys(p)
    \/ GetAccount \/ GetMarket \/ FetchThrows

Chain == \E p \in Pools : CreateMarket(p) \/ CreatePool(p) \/ InitializePool(p)

Next == Call \/ Chain

Spec == Init /\ [][Next]_vars

-----------------------------------------------------------------------------
(* The pool that a search finds is the one asked for, on chain and         *)
(* initialised, with its market: an answer from a node that lags, or that  *)
(* others overtook, never makes it another one.  A fetch promises less.    *)
FoundIsAsked ==
    asked \in Pairs /\ outcome \in Pools =>
        /\ status[outcome] = "initialized" /\ outcome \in markets
        /\ outcome = TheMarket /\ PairOf[outcome] = asked

(* Keys made from a pool that is still being set up only ever come from    *)
(* fetchPoolKeys, for the pool it was asked for, and the caller can tell:  *)
(* their market is the default key.  All others, those of a whole listing  *)
(* included, are of an initialised pool and of its own market, whatever    *)
(* others did between the two answers.                                     *)
BlankOnlyFetched ==
    \A i \in DOMAIN keys :
        LET k == keys[i]
        IN  \/ k.market = k.id /\ k.id \in markets /\ status[k.id] = "initialized"
            \/ k.market = DefaultKey /\ k.id = asked

(* A listing that is not empty leaves out no pool that the node showed as  *)
(* initialised: failures leave nothing, never a part.                      *)
AllOrNothing ==
    keys # <<>> =>
        \A e \in listing :
            e.status = "initialized" => \E j \in DOMAIN keys : keys[j].id = e.id

(* The search throws only on a market that the second node did not have,   *)
(* of whichever initialised pool: neither a call that failed nor a pool    *)
(* that is still being set up makes it throw.                              *)
ThrowsForMarketOnly ==
    asked \in Pairs /\ outcome = "threw" =>
        \E i \in DOMAIN answers :
            answers[i] = Null /\ temp[i].status = "initialized"

(* When both calls were answered, "none" is what the first node showed.    *)
NotFoundAsShown ==
    outcome = "none" /\ swallowed = {} =>
        ~\E e \in listing :
            e.status = "initialized" /\ e.id = TheMarket /\ PairOf[e.id] = asked

(* "No liquidity pool found for given base and quote mint."                *)
(* (liquidity-util.ts:252): a pool of this pair that was initialised when  *)
(* the call was made was unknown to the node that listed the pools.        *)
NotFoundIsTrue ==
    outcome = "none" =>
        \A p \in known :
            PairOf[p] = asked =>
                /\ "list" \notin swallowed
                /\ [id |-> p, status |-> "initialized"] \notin listing

=============================================================================
