-------------------------------- MODULE FeedsProofs --------------------------------
(***************************************************************************)
(* Theorems about what is delivered from one machine to another: Push, for *)
(* any browsers, keys and renewals; AgentShipping (the journal of a host   *)
(* to the server), for any capacities, clocks and numbers of starts.       *)
(***************************************************************************)
EXTENDS AgentShipping, Push, FiniteSetTheorems, SequenceTheorems, TLAPS

-----------------------------------------------------------------------------
(* Push: the inductive invariant.                                          *)


\* While init_vapid stores a pair there is no private half; the public half is the
\* new one between the two statements; and a private half is never alone.
PairIsWhole ==
    /\ boot \in {"public", "private"} => keys # 0 /\ settings.private = 0
    /\ boot = "private" => settings.public = keys
    /\ settings.private # 0 => settings.public = settings.private
    /\ vapid.public = vapid.private
    /\ vapid.private \in {0, settings.private}

\* Whoever has a key has the one that is stored.
KeysAreStored ==
    /\ \A b \in Browsers :
         /\ browser[b].page \in {0, settings.private}
         /\ browser[b].key \in {0, settings.private}
         /\ browser[b].key # 0 => browser[b].nth # 0
    /\ \A s \in subs : s.key = settings.private

PushInv == PushTypeOK /\ PairIsWhole /\ KeysAreStored

LEMMA PushInvInit == ASSUME PushInit PROVE PushInv
  <1>. USE PushAssumption
  <1>1. PushTypeOK
    <2>1. [page |-> 0, key |-> 0, nth |-> 0] \in Browser
      BY DEF Browser
    <2>2. NoKeys \in KeyPair
      BY DEF NoKeys, KeyPair
    <2>. QED
      BY <2>1, <2>2 DEF PushInit, PushTypeOK, NoPush
  <1>2. PairIsWhole
    BY DEF PushInit, PairIsWhole, NoKeys
  <1>3. KeysAreStored
    BY DEF PushInit, KeysAreStored, NoKeys
  <1>. QED
    BY <1>1, <1>2, <1>3 DEF PushInv

-----------------------------------------------------------------------------
(* The start of the server.                                                *)

LEMMA BootKeeps ==
    ASSUME PushInv,
           LoadKeys \/ GenerateKeys \/ KeygenFails \/ PushRestart
    PROVE  PushInv'
  <1>. USE PushAssumption DEF PushInv
  <1>1. CASE LoadKeys
    BY <1>1 DEF LoadKeys, PairIsStored, PushTypeOK, PairIsWhole, KeysAreStored
  <1>2. CASE GenerateKeys
    <2>1. settings.private = 0 \/ settings.public = 0
      BY <1>2 DEF GenerateKeys, PairIsStored
    <2>2. settings.private = 0
      BY <2>1 DEF PairIsWhole
    <2>3. PushTypeOK'
      BY <1>2 DEF GenerateKeys, PushTypeOK
    <2>4. keys' # 0
      BY <1>2 DEF GenerateKeys, PushTypeOK
    <2>. QED
      BY <1>2, <2>2, <2>3, <2>4 DEF GenerateKeys, PairIsWhole, KeysAreStored
  <1>3. CASE KeygenFails
    BY <1>3 DEF KeygenFails, PushTypeOK, PairIsWhole, KeysAreStored
  <1>4. CASE PushRestart
    BY <1>4 DEF PushRestart, PushTypeOK, KeyPair, NoKeys, PairIsWhole, KeysAreStored
  <1>. QED
    BY <1>1, <1>2, <1>3, <1>4

LEMMA StoreKeeps ==
    ASSUME PushInv, StorePublic \/ StorePrivate
    PROVE  PushInv'
  <1>. USE PushAssumption DEF PushInv
  <1>1. CASE StorePublic
    <2>1. PushTypeOK'
      BY <1>1 DEF StorePublic, PushTypeOK, KeyPair
    <2>2. PairIsWhole' /\ KeysAreStored'
      BY <1>1 DEF StorePublic, PushTypeOK, PairIsWhole, KeysAreStored
    <2>. QED
      BY <2>1, <2>2
  <1>2. CASE StorePrivate
    <2>1. PushTypeOK'
      BY <1>2 DEF StorePrivate, PushTypeOK, KeyPair
    <2>2. PairIsWhole'
      BY <1>2 DEF StorePrivate, PushTypeOK, PairIsWhole, KeyPair
    \* There was no private half: nobody has a key yet.
    <2>3. KeysAreStored'
      <3>1. settings.private = 0
        BY <1>2 DEF StorePrivate, PairIsWhole
      <3>2. \A b \in Browsers : browser[b].page = 0 /\ browser[b].key = 0
        BY <3>1 DEF KeysAreStored
      <3>3. subs = {}
        BY <3>1 DEF KeysAreStored, PushTypeOK, Subscription
      <3>. QED
        BY <1>2, <3>2, <3>3 DEF StorePrivate, KeysAreStored
    <2>. QED
      BY <2>1, <2>2, <2>3
  <1>. QED
    BY <1>1, <1>2

-----------------------------------------------------------------------------
(* Browsers.                                                               *)

LEMMA PageKeeps ==
    ASSUME PushInv, NEW b \in Browsers,
           FetchKey(b) \/ LeavePage(b) \/ SubscribeBrowser(b) \/ UnsubscribeBrowser(b)
    PROVE  PushInv'
  <1>. USE PushAssumption DEF PushInv
  <1>1. browser[b] \in Browser
    BY DEF PushTypeOK
  <1>2. /\ browser' \in [Browsers -> Browser]
        /\ \A c \in Browsers :
             /\ browser'[c].page \in {0, settings.private}
             /\ browser'[c].key \in {0, settings.private}
             /\ browser'[c].key # 0 => browser'[c].nth # 0
    <2>1. CASE FetchKey(b)
      <3>1. vapid.public \in 0..MaxKeys /\ vapid.public = settings.private
        BY <2>1 DEF FetchKey, PairIsWhole, PushTypeOK, KeyPair
      <3>. QED
        BY <1>1, <2>1, <3>1 DEF FetchKey, PushTypeOK, KeysAreStored, Browser
    <2>2. CASE LeavePage(b)
      BY <1>1, <2>2 DEF LeavePage, PushTypeOK, KeysAreStored, Browser
    <2>3. CASE SubscribeBrowser(b)
      <3>1. browser[b].nth + 1 \in 1..MaxRenewals
        BY <1>1, <2>3 DEF SubscribeBrowser, Browser
      <3>2. browser' \in [Browsers -> Browser]
        BY <1>1, <2>3, <3>1 DEF SubscribeBrowser, PushTypeOK, Browser
      <3>. QED
        BY <1>1, <2>3, <3>1, <3>2 DEF SubscribeBrowser, PushTypeOK, KeysAreStored
    <2>4. CASE UnsubscribeBrowser(b)
      BY <1>1, <2>4 DEF UnsubscribeBrowser, PushTypeOK, KeysAreStored, Browser
    <2>. QED
      BY <2>1, <2>2, <2>3, <2>4
  <1>3. UNCHANGED <<settings, vapid, boot, keys, subs, pushed>>
    BY DEF FetchKey, LeavePage, SubscribeBrowser, UnsubscribeBrowser
  <1>. QED
    BY <1>2, <1>3 DEF PushTypeOK, PairIsWhole, KeysAreStored

\* What is stored is the key the browser subscribed with.
LEMMA SubscriptionsKeep ==
    ASSUME PushInv, NEW b \in Browsers, SubscribeServer(b) \/ UnsubscribeServer(b)
    PROVE  PushInv'
  <1>. USE DEF PushInv
  <1>1. CASE SubscribeServer(b)
    <2>. DEFINE new == [endpoint |-> EndpointOf(b), key |-> browser[b].key]
    <2>1. browser[b] \in Browser /\ browser[b].key # 0 /\ browser[b].nth # 0
      BY <1>1 DEF SubscribeServer, PushTypeOK, KeysAreStored
    <2>2. browser[b].key \in 1..MaxKeys /\ browser[b].nth \in 1..MaxRenewals
      BY <2>1, PushAssumption DEF Browser
    <2>3. new \in Subscription
      BY <2>2 DEF Subscription, Endpoints, EndpointOf
    <2>4. new.key = settings.private
      BY <2>1 DEF KeysAreStored
    <2>5. subs' \subseteq subs \cup {new}
      BY <1>1 DEF SubscribeServer, Without
    <2>. QED
      BY <1>1, <2>3, <2>4, <2>5 DEF SubscribeServer, PushTypeOK, PairIsWhole, KeysAreStored
  <1>2. CASE UnsubscribeServer(b)
    BY <1>2 DEF UnsubscribeServer, Without, PushTypeOK, PairIsWhole, KeysAreStored
  <1>. QED
    BY <1>1, <1>2

LEMMA BroadcastKeeps == ASSUME PushInv, Broadcast PROVE PushInv'
  <1>. USE DEF PushInv
  <1>1. subs' \subseteq subs
    BY DEF Broadcast
  <1>2. \A e \in pushed'.owed \cup pushed'.took : e \in Endpoints
    <2>1. pushed'.owed \subseteq {s.endpoint : s \in subs}
      BY DEF Broadcast
    <2>2. \A s \in subs : s.endpoint \in Endpoints
      BY DEF PushTypeOK, Subscription
    <2>3. \A e \in pushed'.took : e \in Endpoints
      BY DEF Broadcast, Outcome
    <2>. QED
      BY <2>1, <2>2, <2>3
  <1>3. UNCHANGED <<settings, vapid, boot, keys, browser>>
    BY DEF Broadcast
  <1>. QED
    BY <1>1, <1>2, <1>3 DEF PushTypeOK, PairIsWhole, KeysAreStored

-----------------------------------------------------------------------------

LEMMA PushInvNext == ASSUME PushInv, [PushNext]_pushVars PROVE PushInv'
  <1>1. CASE UNCHANGED pushVars
    BY <1>1 DEF pushVars, PushInv, PushTypeOK, PairIsWhole, KeysAreStored
  <1>2. CASE PushNext
    BY <1>2, BootKeeps, StoreKeeps, PageKeeps, SubscriptionsKeep, BroadcastKeeps DEF PushNext
  <1>. QED
    BY <1>1, <1>2

\* Every state of Push is well typed.
THEOREM PushIsTyped == PushSpec => []PushTypeOK
  <1>1. PushInv => PushTypeOK
    BY DEF PushInv
  <1>. QED
    BY <1>1, PushInvInit, PushInvNext, PTL DEF PushSpec

\* The keys a running server signs with and hands out are halves of one pair, the one
\* every stored subscription was made with, whenever init_vapid fails or dies.
THEOREM SubscriptionsKeepTheirKey == PushSpec => []KeysMatchSubscriptions
  <1>1. PushInv => KeysMatchSubscriptions
    BY DEF PushInv, PairIsWhole, KeysAreStored, KeysMatchSubscriptions
  <1>. QED
    BY <1>1, PushInvInit, PushInvNext, PTL DEF PushSpec

-----------------------------------------------------------------------------
(* Log shipping: the inductive invariant.                                  *)

\* An entry is accounted for: stored, about to be, or among what was lost.
Covered(i) == copies[i] > 0 \/ i \in missed \/ \E h \in handlers : i \in h.left

\* The rows an entry has and will have, and the most that earlier runs may have left.
Carriers(i) == {h \in handlers : i \in h.left}
Total(i) == copies[i] + Cardinality(Carriers(i))
Before == 2 * (starts - 1)

\* Nothing lies in the future, what is read is an entry of the journal, and an agent
\* that runs was started.
ClocksAgree ==
    /\ IsFiniteSet(handlers)
    /\ clock <= MaxTime
    /\ \A i \in DOMAIN journal : journal[i] <= clock
    /\ agent.pc # "down" =>
         /\ agent.now <= clock /\ agent.since <= clock /\ starts >= 1
         /\ agent.batch \subseteq DOMAIN journal
         /\ agent.pc = "loop" \/ agent.since <= agent.now

\* What a window has passed is accounted for; once the journal is read, so is what was
\* written before the iteration began, when it is not in the batch that is still to be
\* shipped.
WindowsMeet ==
    agent.pc # "down" =>
        \A i \in DOMAIN journal : agent.begin <= journal[i] =>
            /\ journal[i] < agent.since => Covered(i)
            /\ agent.pc = "ship" /\ journal[i] < agent.now
                 => Covered(i) \/ i \in agent.batch
            /\ agent.pc = "wait" /\ journal[i] < agent.now => Covered(i)

\* A run ships an entry once in the window it was written in and once more when that
\* window ended within the entry's second: what a later window can hold was shipped
\* by this run at most once, and what is as late as the next iteration not at all.
ShippedTwice ==
    os = "linux" =>
        /\ \A i \in Lines \ DOMAIN journal : Total(i) = 0
        /\ \A i \in Lines : Total(i) <= 2 * starts
        /\ \A i \in DOMAIN journal :
             /\ agent.pc \in {"loop", "read"} /\ journal[i] >= agent.since
                  => Total(i) <= Before + 1
             /\ agent.pc = "loop" /\ journal[i] >= agent.awake => Total(i) <= Before
             /\ agent.pc = "ship" /\ i \in agent.batch => Total(i) <= Before + 1
             /\ agent.pc \in {"read", "ship"} /\ journal[i] >= agent.now
                  => Total(i) <= Before
             /\ agent.pc = "wait" /\ journal[i] >= agent.now => Total(i) <= Before + 1

ShippingInv == ShippingTypeOK /\ ClocksAgree /\ WindowsMeet /\ ShippedTwice

\* An agent that runs.
Running == [pc : {"loop", "read", "ship", "wait"}, begin : Seconds, since : Seconds,
            last : Seconds, now : Seconds, awake : Seconds, batch : SUBSET Lines]

\* An agent is down or has all of its fields.
LEMMA AgentShape ==
    ASSUME ShippingTypeOK
    PROVE  /\ agent.pc = "down" => agent = [pc |-> "down"]
           /\ agent.pc # "down" => agent \in Running
           /\ Running \subseteq Agent /\ [pc |-> "down"] \in Agent
<1>1. agent \in [pc : {"down"}] \/ agent \in Running
  BY DEF ShippingTypeOK, Agent, Running
<1>2. CASE agent \in [pc : {"down"}]
  BY <1>2 DEF Agent, Running
<1>3. CASE agent \in Running
  BY <1>3 DEF Agent, Running
<1>. QED
  BY <1>1, <1>2, <1>3

\* The invariant holds at the start.
LEMMA ShippingStart == ShippingInit => ShippingInv
<1>. SUFFICES ASSUME ShippingInit PROVE ShippingInv
  OBVIOUS
<1>. USE ShippingAssumption DEF ShippingInit
<1>1. ShippingTypeOK
  <2>1. [pc |-> "down"] \in Agent
    BY DEF Agent
  <2>. QED
    BY <2>1 DEF ShippingTypeOK, Seconds
<1>2. ClocksAgree
  <2>1. IsFiniteSet({})
    BY FS_EmptySet
  <2>. QED
    BY <2>1 DEF ClocksAgree
<1>3. WindowsMeet
  BY DEF WindowsMeet
<1>4. ShippedTwice
  <2>1. \A i \in Lines : Carriers(i) = {} /\ copies[i] = 0
    BY DEF Carriers
  <2>2. Cardinality({}) = 0
    BY FS_EmptySet
  <2>3. ASSUME NEW i \in Lines PROVE Total(i) = 0
    <3>1. Carriers(i) = {} /\ copies[i] = 0
      BY <2>1
    <3>2. Total(i) = 0 + 0
      BY <3>1, <2>2 DEF Total
    <3>. QED
      BY <3>2
  <2>4. DOMAIN journal = {} /\ 2 * starts = 0
    OBVIOUS
  <2>. QED
    BY <2>3, <2>4 DEF ShippedTwice
<1>. QED
  BY <1>1, <1>2, <1>3, <1>4 DEF ShippingInv

-----------------------------------------------------------------------------
(* How a step changes the rows an entry has and will have.                 *)

\* A set that replaces one member by another, or by none, is no larger; one that
\* only loses the member is smaller by one.
LEMMA Replaced ==
    ASSUME NEW S, IsFiniteSet(S), NEW x, NEW y, NEW T, IsFiniteSet(T)
    PROVE  /\ Cardinality(S) \in Nat /\ Cardinality(T) \in Nat
           /\ T \subseteq S => Cardinality(T) <= Cardinality(S)
           /\ T \subseteq S \cup {y} => Cardinality(T) <= Cardinality(S) + 1
           /\ x \in S /\ T = S \ {x} => Cardinality(T) + 1 = Cardinality(S)
           /\ x \in S /\ T \subseteq (S \ {x}) \cup {y} => Cardinality(T) <= Cardinality(S)
<1>1. Cardinality(S) \in Nat /\ Cardinality(T) \in Nat
  BY FS_CardinalityType
<1>2. T \subseteq S => Cardinality(T) <= Cardinality(S)
  BY FS_Subset
<1>3. ASSUME T \subseteq S \cup {y} PROVE Cardinality(T) <= Cardinality(S) + 1
  <2>1. /\ IsFiniteSet(S \cup {y})
        /\ Cardinality(S \cup {y}) = IF y \in S THEN Cardinality(S) ELSE Cardinality(S) + 1
    BY FS_AddElement
  <2>2. Cardinality(T) <= Cardinality(S \cup {y})
    BY <1>3, <2>1, FS_Subset
  <2>. QED
    BY <1>1, <2>1, <2>2
<1>4. x \in S => IsFiniteSet(S \ {x}) /\ Cardinality(S \ {x}) = Cardinality(S) - 1
  BY FS_RemoveElement
<1>5. ASSUME x \in S, T \subseteq (S \ {x}) \cup {y}
      PROVE  Cardinality(T) <= Cardinality(S)
  <2>. DEFINE R == S \ {x}
  <2>0. IsFiniteSet(R) /\ Cardinality(R) = Cardinality(S) - 1 /\ T \subseteq R \cup {y}
    BY <1>4, <1>5
  <2>. HIDE DEF R
  <2>1. /\ IsFiniteSet(R \cup {y})
        /\ Cardinality(R \cup {y}) = IF y \in R THEN Cardinality(R) ELSE Cardinality(R) + 1
    BY <2>0, FS_AddElement
  <2>2. Cardinality(T) <= Cardinality(R \cup {y})
    BY <2>0, <2>1, FS_Subset
  <2>. QED
    BY <1>1, <2>0, <2>1, <2>2
<1>6. ASSUME x \in S, T = S \ {x} PROVE Cardinality(T) + 1 = Cardinality(S)
  <2>1. Cardinality(T) = Cardinality(S) - 1
    BY <1>4, <1>6
  <2>. QED
    BY <1>1, <2>1
<1>. QED
  BY <1>1, <1>2, <1>3, <1>5, <1>6

\* A set of handlers that is finite has finitely many that carry an entry.
LEMMA CarriersFinite ==
    ASSUME IsFiniteSet(handlers)
    PROVE  \A i : IsFiniteSet(Carriers(i)) /\ Cardinality(Carriers(i)) \in Nat
<1>1. \A i : Carriers(i) \subseteq handlers
  BY DEF Carriers
<1>2. \A i : IsFiniteSet(Carriers(i))
  BY <1>1, FS_Subset
<1>. QED
  BY <1>2, FS_CardinalityType

\* Inserting an entry, and a handler that fails, add to no entry's rows.
LEMMA ServerAddsNothing ==
    ASSUME ShippingTypeOK, IsFiniteSet(handlers), NEW h \in handlers,
           Insert(h) \/ HandlerFails(h)
    PROVE  /\ IsFiniteSet(handlers')
           /\ \A j \in Lines : /\ Total(j) \in Nat /\ Total(j)' \in Nat
                               /\ Total(j)' <= Total(j)
                               /\ Covered(j) => Covered(j)'
<1>0. /\ handlers \subseteq Handler /\ copies \in [Lines -> Nat]
      /\ h \in Handler /\ h.left \subseteq Lines
  BY DEF ShippingTypeOK, Handler
<1>1. CASE Insert(h)
  <2>1. PICK i \in h.left :
          /\ copies' = [copies EXCEPT ![i] = @ + 1]
          /\ handlers' = (handlers \ {h})
               \cup (IF h.left = {i} THEN {} ELSE {[h EXCEPT !.left = h.left \ {i}]})
          /\ missed' = missed
    BY <1>1 DEF Insert
  <2>. DEFINE r == [h EXCEPT !.left = h.left \ {i}]
  <2>2. r.left = h.left \ {i}
    BY <1>0 DEF Handler
  <2>3. handlers' \subseteq (handlers \ {h}) \cup {r}
    BY <2>1
  <2>4. h.left # {i} => r \in handlers'
    BY <2>1
  <2>5. \A x \in handlers : x # h => x \in handlers'
    BY <2>1
  <2>. HIDE DEF r
  <2>6. IsFiniteSet(handlers')
    <3>1. IsFiniteSet(handlers \cup {r})
      BY FS_AddElement
    <3>. QED
      BY <2>3, <3>1, FS_Subset
  <2>7. ASSUME NEW j \in Lines
        PROVE  Total(j) \in Nat /\ Total(j)' \in Nat /\ Total(j)' <= Total(j)
    <3>1. /\ IsFiniteSet(Carriers(j)) /\ Cardinality(Carriers(j)) \in Nat
          /\ IsFiniteSet(Carriers(j)') /\ Cardinality(Carriers(j)') \in Nat
      <4>1. Carriers(j) \subseteq handlers /\ Carriers(j)' \subseteq handlers'
        BY DEF Carriers
      <4>. QED
        BY <4>1, <2>6, FS_Subset, FS_CardinalityType
    <3>2. CASE j = i
      <4>1. h \in Carriers(j) /\ Carriers(j)' = Carriers(j) \ {h}
        BY <3>2, <2>2, <2>3, <2>5 DEF Carriers
      <4>2. Cardinality(Carriers(j)') + 1 = Cardinality(Carriers(j))
        BY <3>1, <4>1, Replaced
      <4>3. copies[j] \in Nat /\ copies'[j] = copies[j] + 1
        BY <2>1, <1>0, <3>2
      <4>. QED
        BY <3>1, <4>2, <4>3 DEF Total
    <3>3. CASE j # i
      <4>1. Cardinality(Carriers(j)') <= Cardinality(Carriers(j))
        <5>1. CASE j \in h.left
          <6>1. h \in Carriers(j) /\ Carriers(j)' \subseteq (Carriers(j) \ {h}) \cup {r}
            BY <5>1, <2>3 DEF Carriers
          <6>. QED
            BY <3>1, <6>1, Replaced
        <5>2. CASE j \notin h.left
          <6>1. Carriers(j)' \subseteq Carriers(j)
            BY <5>2, <2>2, <2>3 DEF Carriers
          <6>. QED
            BY <3>1, <6>1, Replaced
        <5>. QED
          BY <5>1, <5>2
      <4>2. copies[j] \in Nat /\ copies'[j] = copies[j]
        BY <2>1, <1>0, <3>3
      <4>. QED
        BY <3>1, <4>1, <4>2 DEF Total
    <3>. QED
      BY <3>2, <3>3
  <2>8. ASSUME NEW j \in Lines, Covered(j) PROVE Covered(j)'
    <3>1. copies[j] \in Nat /\ copies'[j] >= copies[j] /\ (j = i => copies'[j] > 0)
      BY <2>1, <1>0
    <3>2. CASE copies[j] > 0 \/ j \in missed \/ j = i
      <4>1. copies'[j] \in Nat
        BY <2>1, <1>0
      <4>. QED
        BY <3>1, <3>2, <2>1, <4>1 DEF Covered
    <3>3. ASSUME NEW x \in handlers, j \in x.left, j # i PROVE Covered(j)'
      <4>1. CASE x = h
        BY <4>1, <3>3, <2>2, <2>4 DEF Covered
      <4>2. CASE x # h
        BY <4>2, <3>3, <2>5 DEF Covered
      <4>. QED
        BY <4>1, <4>2
    <3>. QED
      BY <2>8, <3>2, <3>3 DEF Covered
  <2>. QED
    BY <2>6, <2>7, <2>8
<1>2. CASE HandlerFails(h)
  <2>1. /\ handlers' = handlers \ {h} /\ missed' = missed \cup h.left
        /\ copies' = copies
    BY <1>2 DEF HandlerFails
  <2>2. IsFiniteSet(handlers')
    BY <2>1, FS_Subset
  <2>3. ASSUME NEW j \in Lines
        PROVE  Total(j) \in Nat /\ Total(j)' \in Nat /\ Total(j)' <= Total(j)
    <3>1. /\ Carriers(j) \subseteq handlers /\ Carriers(j)' \subseteq handlers'
          /\ Carriers(j)' \subseteq Carriers(j)
      BY <2>1 DEF Carriers
    <3>2. IsFiniteSet(Carriers(j)) /\ IsFiniteSet(Carriers(j)')
      BY <2>2, <3>1, FS_Subset
    <3>3. /\ Cardinality(Carriers(j)) \in Nat /\ Cardinality(Carriers(j)') \in Nat
          /\ Cardinality(Carriers(j)') <= Cardinality(Carriers(j))
      BY <3>1, <3>2, Replaced
    <3>. QED
      BY <3>3, <2>1, <1>0 DEF Total
  <2>4. \A j \in Lines : Covered(j) => Covered(j)'
    BY <2>1 DEF Covered
  <2>. QED
    BY <2>2, <2>3, <2>4
<1>. QED
  BY <1>1, <1>2

\* A request that reaches the handler adds a row to come to the entries of its batch,
\* and one that does not adds none; each entry of the batch is accounted for.
LEMMA ShipAddsOne ==
    ASSUME ShippingTypeOK, IsFiniteSet(handlers), Ship
    PROVE  /\ IsFiniteSet(handlers')
           /\ \A j \in Lines : /\ Total(j) \in Nat /\ Total(j)' \in Nat
                               /\ Total(j)' <= Total(j) + 1
                               /\ j \notin agent.batch => Total(j)' <= Total(j)
                               /\ Covered(j) \/ j \in agent.batch => Covered(j)'
<1>. DEFINE r == [run |-> starts, sent |-> agent.now, left |-> agent.batch]
<1>0. r.left = agent.batch /\ copies \in [Lines -> Nat]
  BY DEF ShippingTypeOK
<1>1. /\ copies' = copies
      /\ \/ handlers' = handlers \cup {r} /\ missed' = missed
         \/ handlers' = handlers /\ missed' = missed \cup agent.batch
  BY DEF Ship
<1>. HIDE DEF r
<1>2. IsFiniteSet(handlers')
  BY <1>1, FS_AddElement
<1>3. ASSUME NEW j \in Lines
      PROVE  /\ Total(j) \in Nat /\ Total(j)' \in Nat
             /\ Total(j)' <= Total(j) + 1
             /\ j \notin agent.batch => Total(j)' <= Total(j)
  <2>1. /\ Carriers(j) \subseteq handlers /\ Carriers(j)' \subseteq handlers'
        /\ Carriers(j)' \subseteq Carriers(j) \cup {r}
        /\ j \notin agent.batch => Carriers(j)' \subseteq Carriers(j)
    BY <1>0, <1>1 DEF Carriers
  <2>2. IsFiniteSet(Carriers(j)) /\ IsFiniteSet(Carriers(j)')
    BY <1>2, <2>1, FS_Subset
  <2>3. /\ Cardinality(Carriers(j)) \in Nat /\ Cardinality(Carriers(j)') \in Nat
        /\ Cardinality(Carriers(j)') <= Cardinality(Carriers(j)) + 1
        /\ j \notin agent.batch => Cardinality(Carriers(j)') <= Cardinality(Carriers(j))
    BY <2>1, <2>2, Replaced
  <2>. QED
    BY <2>3, <1>0, <1>1 DEF Total
<1>4. ASSUME NEW j \in Lines, Covered(j) \/ j \in agent.batch PROVE Covered(j)'
  BY <1>0, <1>1, <1>4 DEF Covered
<1>. QED
  BY <1>2, <1>3, <1>4

\* The other steps touch neither.
LEMMA OthersLeaveRows ==
    ASSUME ShippingTypeOK, IsFiniteSet(handlers),
           copies' = copies, handlers' = handlers, missed \subseteq missed'
    PROVE  \A j \in Lines : /\ Total(j) \in Nat /\ Total(j)' = Total(j)
                            /\ Covered(j) => Covered(j)'
<1>1. \A j \in Lines : Carriers(j)' = Carriers(j)
  BY DEF Carriers
<1>2. \A j \in Lines : Total(j) \in Nat
  BY CarriersFinite DEF Total, ShippingTypeOK
<1>. QED
  BY <1>1, <1>2 DEF Total, Covered

-----------------------------------------------------------------------------
(* The steps.                                                              *)

\* An entry is written, and time passes.
LEMMA WorldKeeps == ASSUME ShippingInv, Write \/ Second PROVE ShippingInv'
<1>. USE ShippingAssumption DEF ShippingInv
<1>0. /\ journal \in Seq(Seconds) /\ Len(journal) \in Nat /\ Len(journal) <= MaxLines
      /\ DOMAIN journal = 1..Len(journal) /\ DOMAIN journal \subseteq Lines
      /\ clock \in Nat /\ starts \in Nat
  BY DEF ShippingTypeOK, Lines, Seconds
<1>1. /\ agent' = agent /\ copies' = copies /\ handlers' = handlers
      /\ missed' = missed /\ starts' = starts /\ os' = os
  BY DEF Write, Second
<1>2. \A j \in Lines : /\ Total(j) \in Nat /\ Total(j)' = Total(j)
                       /\ Covered(j) => Covered(j)'
  BY <1>1, OthersLeaveRows DEF ClocksAgree
<1>3. agent.pc # "down" => agent \in Running
  BY AgentShape
<1>4. CASE Write
  <2>1. /\ Len(journal) + 1 \in Lines /\ journal' = Append(journal, clock)
        /\ clock' = clock
    BY <1>0, <1>4 DEF Write, Lines
  <2>2. /\ journal' \in Seq(Seconds) /\ Len(journal') = Len(journal) + 1
        /\ DOMAIN journal' = DOMAIN journal \cup {Len(journal) + 1}
        /\ \A j \in DOMAIN journal : journal'[j] = journal[j]
        /\ journal'[Len(journal) + 1] = clock
    BY <2>1, <1>0 DEF ShippingTypeOK
  <2>3. ShippingTypeOK'
    BY <1>0, <1>1, <2>1, <2>2, <1>4 DEF ShippingTypeOK, Write
  <2>4. ClocksAgree'
    BY <1>0, <1>1, <2>1, <2>2 DEF ClocksAgree
  <2>5. WindowsMeet'
    <3>1. SUFFICES ASSUME agent.pc # "down", NEW j \in DOMAIN journal',
                          agent.begin <= journal'[j]
          PROVE  /\ journal'[j] < agent.since => Covered(j)'
                 /\ agent.pc = "ship" /\ journal'[j] < agent.now
                      => Covered(j)' \/ j \in agent.batch
                 /\ agent.pc = "wait" /\ journal'[j] < agent.now => Covered(j)'
      BY <1>1 DEF WindowsMeet
    <3>2. CASE j \in DOMAIN journal
      BY <3>1, <3>2, <1>0, <1>2, <2>2 DEF WindowsMeet
    <3>3. CASE j = Len(journal) + 1
      <4>1. /\ agent.now \in Nat /\ agent.since \in Nat
            /\ agent.now <= clock /\ agent.since <= clock
        BY <3>1, <1>3 DEF Running, Seconds, ClocksAgree
      <4>. QED
        BY <3>3, <4>1, <2>2, <1>0
    <3>. QED
      BY <3>2, <3>3, <2>2
  <2>6. ShippedTwice'
    <3>1. SUFFICES ASSUME os = "linux" PROVE ShippedTwice'
      BY <1>1 DEF ShippedTwice
    <3>2. \A j \in Lines \ DOMAIN journal' : Total(j)' = 0
      BY <3>1, <1>2, <2>2 DEF ShippedTwice
    <3>3. \A j \in Lines : Total(j)' <= 2 * starts'
      BY <3>1, <1>1, <1>2 DEF ShippedTwice
    <3>4. Before' = Before
      BY <1>1 DEF Before
    <3>5. ASSUME NEW j \in DOMAIN journal'
          PROVE  /\ agent.pc \in {"loop", "read"} /\ journal'[j] >= agent.since
                      => Total(j)' <= Before + 1
                 /\ agent.pc = "loop" /\ journal'[j] >= agent.awake => Total(j)' <= Before
                 /\ agent.pc = "ship" /\ j \in agent.batch => Total(j)' <= Before + 1
                 /\ agent.pc \in {"read", "ship"} /\ journal'[j] >= agent.now
                      => Total(j)' <= Before
                 /\ agent.pc = "wait" /\ journal'[j] >= agent.now => Total(j)' <= Before + 1
      <4>1. CASE j \in DOMAIN journal
        BY <3>1, <4>1, <1>0, <1>2, <2>2 DEF ShippedTwice
      <4>2. CASE j = Len(journal) + 1
        <5>1. Total(j)' = 0
          BY <3>1, <4>2, <1>0, <1>2, <2>1 DEF ShippedTwice
        <5>2. agent.pc # "down" => 0 <= Before /\ 0 <= Before + 1
          BY <1>0 DEF ClocksAgree, Before
        <5>. QED
          BY <5>1, <5>2
      <4>. QED
        BY <4>1, <4>2, <2>2
    <3>. QED
      BY <3>2, <3>3, <3>4, <3>5, <1>1 DEF ShippedTwice
  <2>. QED
    BY <2>3, <2>4, <2>5, <2>6
<1>5. CASE Second
  <2>1. journal' = journal /\ clock < MaxTime /\ clock' = clock + 1
    BY <1>5 DEF Second
  <2>2. ShippingTypeOK'
    BY <1>0, <1>1, <2>1 DEF ShippingTypeOK, Seconds
  <2>3. ClocksAgree'
    <3>1. \A j \in DOMAIN journal : journal[j] \in Nat
      BY <1>0 DEF Seconds
    <3>2. agent.pc # "down" => agent.now \in Nat /\ agent.since \in Nat
      BY <1>3 DEF Running, Seconds
    <3>. QED
      BY <1>0, <1>1, <2>1, <3>1, <3>2 DEF ClocksAgree
  <2>4. WindowsMeet'
    BY <1>0, <1>1, <1>2, <2>1 DEF WindowsMeet
  <2>5. ShippedTwice'
    BY <1>0, <1>1, <1>2, <2>1 DEF ShippedTwice, Before
  <2>. QED
    BY <2>2, <2>3, <2>4, <2>5
<1>. QED
  BY <1>4, <1>5

\* The server's handlers.
LEMMA ServerKeeps ==
    ASSUME ShippingInv, NEW h \in handlers, Insert(h) \/ HandlerFails(h)
    PROVE  ShippingInv'
<1>. USE ShippingAssumption DEF ShippingInv
<1>0. /\ DOMAIN journal \subseteq Lines /\ starts \in Nat
      /\ h \in Handler /\ h.left \subseteq Lines
  BY DEF ShippingTypeOK, Lines, Handler
<1>1. /\ agent' = agent /\ journal' = journal /\ clock' = clock
      /\ starts' = starts /\ os' = os
  BY DEF Insert, HandlerFails
<1>2. /\ IsFiniteSet(handlers')
      /\ \A j \in Lines : /\ Total(j) \in Nat /\ Total(j)' \in Nat
                          /\ Total(j)' <= Total(j)
                          /\ Covered(j) => Covered(j)'
  BY ServerAddsNothing DEF ClocksAgree
<1>3. ShippingTypeOK'
  <2>1. CASE Insert(h)
    <3>1. \A i \in Lines : [h EXCEPT !.left = h.left \ {i}] \in Handler
      BY <1>0 DEF Handler
    <3>2. PICK i \in h.left :
            /\ copies' = [copies EXCEPT ![i] = @ + 1]
            /\ handlers' = (handlers \ {h})
                 \cup (IF h.left = {i} THEN {} ELSE {[h EXCEPT !.left = h.left \ {i}]})
            /\ missed' = missed
      BY <2>1 DEF Insert
    <3>3. handlers' \subseteq Handler /\ copies' \in [Lines -> Nat]
      BY <3>1, <3>2, <1>0 DEF ShippingTypeOK
    <3>. QED
      BY <1>1, <3>2, <3>3 DEF ShippingTypeOK
  <2>2. CASE HandlerFails(h)
    BY <2>2, <1>0, <1>1 DEF HandlerFails, ShippingTypeOK
  <2>. QED
    BY <2>1, <2>2
<1>4. ClocksAgree'
  BY <1>1, <1>2 DEF ClocksAgree
<1>5. WindowsMeet'
  BY <1>0, <1>1, <1>2 DEF WindowsMeet
<1>6. ShippedTwice'
  <2>1. Before' = Before /\ Before \in Int
    BY <1>0, <1>1 DEF Before
  <2>2. ASSUME NEW b \in Int, NEW j \in Lines, Total(j) <= b PROVE Total(j)' <= b
    BY <1>2, <2>2
  <2>3. \A j \in Lines \ DOMAIN journal : os = "linux" => Total(j)' = 0
    <3>1. \A j \in Lines : Total(j) = 0 => Total(j)' = 0
      BY <1>2
    <3>. QED
      BY <3>1 DEF ShippedTwice
  <2>4. 2 * starts \in Int /\ Before + 1 \in Int
    BY <1>0, <2>1
  <2>. QED
    BY <1>0, <1>1, <2>1, <2>2, <2>3, <2>4 DEF ShippedTwice
<1>. QED
  BY <1>3, <1>4, <1>5, <1>6

\* An agent starts or stops.
LEMMA RunKeeps == ASSUME ShippingInv, Start \/ Stop PROVE ShippingInv'
<1>. USE ShippingAssumption DEF ShippingInv
<1>0. /\ DOMAIN journal \subseteq Lines /\ starts \in Nat /\ clock \in Nat
      /\ \A j \in DOMAIN journal : journal[j] \in Nat
  BY DEF ShippingTypeOK, Lines, Seconds
<1>1. /\ journal' = journal /\ clock' = clock /\ copies' = copies /\ os' = os
      /\ handlers' = handlers /\ missed' = missed
  BY DEF Start, Stop
<1>2. \A j \in Lines : /\ Total(j) \in Nat /\ Total(j)' = Total(j)
                       /\ Covered(j) => Covered(j)'
  BY <1>1, OthersLeaveRows DEF ClocksAgree
<1>3. CASE Start
  <2>. DEFINE s == IF clock > Back THEN clock - Back ELSE 0
  <2>1. /\ starts < MaxStarts /\ starts' = starts + 1
        /\ agent' = [pc |-> "loop", begin |-> s, since |-> s, last |-> 0,
                     now |-> 0, awake |-> clock, batch |-> {}]
    BY <1>3 DEF Start
  <2>2. s \in Nat /\ s <= clock
    BY <1>0
  <2>. HIDE DEF s
  <2>3. agent' \in Running
    BY <1>0, <2>1, <2>2 DEF ShippingTypeOK, Running, Seconds, ClocksAgree
  <2>4. ShippingTypeOK'
    BY <1>1, <2>1, <2>3, AgentShape DEF ShippingTypeOK
  <2>5. ClocksAgree'
    BY <1>0, <1>1, <2>1, <2>2 DEF ClocksAgree
  <2>6. WindowsMeet'
    BY <1>0, <1>1, <2>1, <2>2 DEF WindowsMeet
  <2>7. ShippedTwice'
    <3>1. Before' = 2 * starts /\ 2 * starts' = 2 * starts + 2
      BY <1>0, <2>1 DEF Before
    <3>2. 2 * starts \in Nat
      BY <1>0
    <3>3. \A j \in Lines : os = "linux" => /\ Total(j)' <= 2 * starts
                                           /\ Total(j)' <= 2 * starts + 1
                                           /\ Total(j)' <= 2 * starts + 2
      BY <1>2, <3>2 DEF ShippedTwice
    <3>4. \A j \in Lines \ DOMAIN journal : os = "linux" => Total(j)' = 0
      BY <1>2 DEF ShippedTwice
    <3>5. agent'.pc = "loop"
      BY <2>1
    <3>. QED
      BY <1>0, <1>1, <3>1, <3>3, <3>4, <3>5 DEF ShippedTwice
  <2>. QED
    BY <2>4, <2>5, <2>6, <2>7
<1>4. CASE Stop
  <2>1. agent' = [pc |-> "down"] /\ agent'.pc = "down" /\ starts' = starts
    BY <1>4 DEF Stop
  <2>2. ShippingTypeOK'
    BY <1>1, <2>1, AgentShape DEF ShippingTypeOK
  <2>3. ClocksAgree' /\ WindowsMeet'
    BY <1>1, <2>1 DEF ClocksAgree, WindowsMeet
  <2>4. ShippedTwice'
    <3>1. \A j \in Lines \ DOMAIN journal : os = "linux" => Total(j)' = 0
      BY <1>2 DEF ShippedTwice
    <3>2. \A j \in Lines : os = "linux" => Total(j)' <= 2 * starts
      BY <1>2 DEF ShippedTwice
    <3>. QED
      BY <1>1, <2>1, <3>1, <3>2 DEF ShippedTwice
  <2>. QED
    BY <2>2, <2>3, <2>4
<1>. QED
  BY <1>3, <1>4

\* The fields of an agent that runs, and its type as it goes on.
LEMMA AgentUpdates ==
    /\ \A a \in Running, now \in Seconds :
         [a EXCEPT !.pc = "read", !.now = now] \in Running
    /\ \A a \in Running, p \in {"wait", "ship"}, b \in SUBSET Lines :
         [a EXCEPT !.pc = p, !.batch = b] \in Running
    /\ \A a \in Running, since \in Seconds, awake \in Seconds :
         [a EXCEPT !.pc = "loop", !.since = since, !.last = since, !.awake = awake] \in Running
    /\ \A a \in Running :
         /\ a.begin \in Nat /\ a.since \in Nat /\ a.now \in Nat /\ a.awake \in Nat
         /\ {a.begin, a.since, a.last, a.now, a.awake} \subseteq Seconds
         /\ a.batch \subseteq Lines
         /\ a.pc \in {"loop", "read", "ship", "wait"}
<1>1. ASSUME NEW a \in Running, NEW now \in Seconds
      PROVE  [a EXCEPT !.pc = "read", !.now = now] \in Running
  BY DEF Running
<1>2. ASSUME NEW a \in Running, NEW p \in {"wait", "ship"}, NEW b \in SUBSET Lines
      PROVE  [a EXCEPT !.pc = p, !.batch = b] \in Running
  BY DEF Running
<1>3. ASSUME NEW a \in Running, NEW since \in Seconds, NEW awake \in Seconds
      PROVE  [a EXCEPT !.pc = "loop", !.since = since, !.last = since, !.awake = awake]
               \in Running
  BY DEF Running
<1>4. ASSUME NEW a \in Running
      PROVE  /\ a.begin \in Nat /\ a.since \in Nat /\ a.now \in Nat /\ a.awake \in Nat
             /\ {a.begin, a.since, a.last, a.now, a.awake} \subseteq Seconds
             /\ a.batch \subseteq Lines
             /\ a.pc \in {"loop", "read", "ship", "wait"}
  BY DEF Running, Seconds
<1>. QED
  BY <1>1, <1>2, <1>3, <1>4

\* An iteration begins, and later ends: neither touches the table or the handlers.
LEMMA LoopKeeps == ASSUME ShippingInv, Iterate \/ Shipped PROVE ShippingInv'
<1>. USE ShippingAssumption DEF ShippingInv
<1>0. /\ DOMAIN journal \subseteq Lines /\ starts \in Nat /\ clock \in Nat
      /\ clock <= MaxTime /\ clock \in Seconds /\ clock + 1 \in Seconds
      /\ \A j \in DOMAIN journal : journal[j] \in Nat /\ journal[j] <= clock
  BY DEF ShippingTypeOK, Lines, Seconds, ClocksAgree
<1>1. /\ journal' = journal /\ clock' = clock /\ copies' = copies /\ os' = os
      /\ handlers' = handlers /\ missed' = missed /\ starts' = starts
  BY DEF Iterate, Shipped
<1>2. \A j \in Lines : /\ Total(j) \in Nat /\ Total(j)' = Total(j)
                       /\ Covered(j) => Covered(j)'
  BY <1>1, OthersLeaveRows DEF ClocksAgree
<1>3. agent.pc # "down" /\ agent \in Running
  BY AgentShape DEF Iterate, Shipped
<1>4. Before' = Before /\ Before \in Int
  BY <1>0, <1>1 DEF Before
<1>5. /\ {agent.begin, agent.since, agent.now, agent.awake, agent.last} \subseteq Seconds
      /\ {agent.begin, agent.since, agent.now, agent.awake} \subseteq Nat
      /\ agent.batch \subseteq Lines
      /\ agent.now <= clock /\ agent.since <= clock /\ starts >= 1
      /\ agent.batch \subseteq DOMAIN journal
  BY <1>3, AgentUpdates DEF ClocksAgree
<1>6. os = "linux" => /\ \A j \in Lines \ DOMAIN journal : Total(j)' = 0
                      /\ \A j \in Lines : Total(j)' <= 2 * starts
  BY <1>2 DEF ShippedTwice
<1>7. CASE Iterate
  <2>1. /\ agent.pc = "loop" /\ clock >= agent.awake
        /\ agent'.pc = "read" /\ agent'.begin = agent.begin
        /\ agent'.since = agent.since /\ agent'.now = clock
        /\ agent'.awake = agent.awake /\ agent'.batch = agent.batch
    BY <1>0, <1>3, <1>7 DEF Iterate, Running
  <2>2. agent' \in Running
    BY <1>0, <1>3, <1>7, AgentUpdates DEF Iterate
  <2>3. ShippingTypeOK'
    BY <1>1, <2>2, AgentShape DEF ShippingTypeOK
  <2>4. ClocksAgree'
    BY <1>0, <1>1, <1>5, <2>1 DEF ClocksAgree
  <2>5. WindowsMeet'
    BY <1>0, <1>1, <1>2, <2>1 DEF WindowsMeet
  <2>6. ShippedTwice'
    <3>1. ASSUME os = "linux", NEW j \in DOMAIN journal
          PROVE  /\ journal[j] >= agent.since => Total(j)' <= Before + 1
                 /\ journal[j] >= clock => Total(j)' <= Before
      <4>1. journal[j] >= clock => journal[j] >= agent.awake
        BY <1>0, <1>5, <2>1
      <4>. QED
        BY <3>1, <4>1, <1>0, <1>2, <2>1 DEF ShippedTwice
    <3>. QED
      BY <1>1, <1>4, <1>6, <2>1, <3>1 DEF ShippedTwice
  <2>. QED
    BY <2>3, <2>4, <2>5, <2>6
<1>8. CASE Shipped
  <2>1. /\ agent.pc = "wait"
        /\ agent'.pc = "loop" /\ agent'.begin = agent.begin
        /\ agent'.since = agent.now /\ agent'.now = agent.now
        /\ agent'.awake = clock + 1 /\ agent'.batch = agent.batch
    BY <1>0, <1>3, <1>8 DEF Shipped, NextSince, Running
  <2>2. agent' \in Running
    BY <1>0, <1>3, <1>5, <1>8, AgentUpdates DEF Shipped, NextSince
  <2>3. ShippingTypeOK'
    BY <1>1, <2>2, AgentShape DEF ShippingTypeOK
  <2>4. ClocksAgree'
    BY <1>0, <1>1, <1>5, <2>1 DEF ClocksAgree
  <2>5. WindowsMeet'
    BY <1>0, <1>1, <1>2, <2>1 DEF WindowsMeet
  <2>6. ShippedTwice'
    <3>1. ASSUME os = "linux", NEW j \in DOMAIN journal
          PROVE  /\ journal[j] >= agent.now => Total(j)' <= Before + 1
                 /\ ~ (journal[j] >= clock + 1)
      <4>1. Total(j)' = Total(j)
        BY <1>0, <1>2
      <4>. QED
        BY <3>1, <4>1, <1>0, <2>1 DEF ShippedTwice
    <3>. QED
      BY <1>1, <1>4, <1>6, <2>1, <3>1 DEF ShippedTwice
  <2>. QED
    BY <2>3, <2>4, <2>5, <2>6
<1>. QED
  BY <1>7, <1>8

\* The journal is read: what the window holds is in the batch, or was missed.
LEMMA ReadKeeps == ASSUME ShippingInv, ReadJournal PROVE ShippingInv'
<1>. USE ShippingAssumption DEF ShippingInv
<1>0. /\ DOMAIN journal \subseteq Lines /\ starts \in Nat /\ clock \in Nat
      /\ \A j \in DOMAIN journal : journal[j] \in Nat
  BY DEF ShippingTypeOK, Lines, Seconds
<1>1. PICK batch \in {Batch(agent.since), {}} :
        /\ agent' = [agent EXCEPT !.pc = IF batch = {} THEN "wait" ELSE "ship",
                                  !.batch = batch]
        /\ missed' = missed \cup (Since(agent.since) \ batch)
  BY DEF ReadJournal
<1>2. /\ journal' = journal /\ clock' = clock /\ copies' = copies /\ os' = os
      /\ handlers' = handlers /\ starts' = starts
      /\ agent.pc = "read" /\ agent \in Running
  BY AgentShape DEF ReadJournal
<1>3. /\ batch \subseteq DOMAIN journal /\ Since(agent.since) \subseteq DOMAIN journal
      /\ os = "linux" => \A j \in batch : journal[j] >= agent.since
  BY DEF Batch, Newest, Since
<1>4. \A j \in Lines : /\ Total(j) \in Nat /\ Total(j)' = Total(j)
                       /\ Covered(j) => Covered(j)'
  BY <1>1, <1>2, OthersLeaveRows DEF ClocksAgree
<1>5. Before' = Before /\ Before \in Int
  BY <1>0, <1>2 DEF Before
<1>6. /\ {agent.begin, agent.since, agent.now, agent.awake, agent.last} \subseteq Seconds
      /\ {agent.begin, agent.since, agent.now, agent.awake} \subseteq Nat
      /\ agent.now <= clock /\ agent.since <= clock /\ starts >= 1
  BY <1>2, AgentUpdates DEF ClocksAgree
<1>7. /\ agent'.pc = IF batch = {} THEN "wait" ELSE "ship"
      /\ agent'.begin = agent.begin /\ agent'.since = agent.since
      /\ agent'.now = agent.now /\ agent'.awake = agent.awake /\ agent'.batch = batch
      /\ agent' \in Running
  <2>1. batch \in SUBSET Lines
    BY <1>0, <1>3
  <2>2. agent' \in Running
    BY <1>1, <1>2, <2>1, AgentUpdates
  <2>. QED
    BY <1>1, <1>2, <2>2 DEF Running
<1>8. ShippingTypeOK'
  BY <1>0, <1>1, <1>2, <1>3, <1>7, AgentShape DEF ShippingTypeOK
<1>9. ClocksAgree'
  BY <1>2, <1>3, <1>6, <1>7 DEF ClocksAgree
<1>10. WindowsMeet'
  <2>1. ASSUME NEW j \in DOMAIN journal, agent.begin <= journal[j]
        PROVE  (journal[j] < agent.since => Covered(j)') /\ (Covered(j)' \/ j \in batch)
    <3>1. CASE journal[j] < agent.since
      BY <2>1, <3>1, <1>0, <1>2, <1>4 DEF WindowsMeet
    <3>2. CASE journal[j] >= agent.since
      <4>1. j \in Since(agent.since)
        BY <3>2 DEF Since
      <4>. QED
        BY <3>2, <4>1, <1>0, <1>1, <1>6 DEF Covered
    <3>. QED
      BY <3>1, <3>2, <1>0, <1>6
  <2>2. batch = {} => \A j \in batch : FALSE
    OBVIOUS
  <2>. QED
    BY <1>2, <1>7, <2>1, <2>2 DEF WindowsMeet
<1>11. ShippedTwice'
  <2>1. os = "linux" => /\ \A j \in Lines \ DOMAIN journal : Total(j)' = 0
                        /\ \A j \in Lines : Total(j)' <= 2 * starts
    BY <1>4 DEF ShippedTwice
  <2>2. ASSUME os = "linux", NEW j \in DOMAIN journal
        PROVE  /\ j \in batch => Total(j)' <= Before + 1
               /\ journal[j] >= agent.now => Total(j)' <= Before
    <3>1. Total(j)' = Total(j)
      BY <1>0, <1>4
    <3>. QED
      BY <2>2, <3>1, <1>2, <1>3 DEF ShippedTwice
  <2>3. ASSUME os = "linux", NEW j \in DOMAIN journal, journal[j] >= agent.now
        PROVE  Total(j)' <= Before + 1
    BY <2>2, <2>3, <1>0, <1>4, <1>5
  <2>. QED
    BY <1>2, <1>5, <1>7, <2>1, <2>2, <2>3 DEF ShippedTwice
<1>. QED
  BY <1>8, <1>9, <1>10, <1>11

\* The batch is posted.
LEMMA ShipKeeps == ASSUME ShippingInv, Ship PROVE ShippingInv'
<1>. USE ShippingAssumption DEF ShippingInv
<1>0. /\ DOMAIN journal \subseteq Lines /\ starts \in Nat /\ clock \in Nat
      /\ \A j \in DOMAIN journal : journal[j] \in Nat
  BY DEF ShippingTypeOK, Lines, Seconds
<1>1. /\ journal' = journal /\ clock' = clock /\ copies' = copies /\ os' = os
      /\ starts' = starts /\ agent.pc = "ship" /\ agent \in Running
  BY AgentShape DEF Ship
<1>2. /\ IsFiniteSet(handlers')
      /\ \A j \in Lines : /\ Total(j) \in Nat /\ Total(j)' \in Nat
                          /\ Total(j)' <= Total(j) + 1
                          /\ j \notin agent.batch => Total(j)' <= Total(j)
                          /\ Covered(j) \/ j \in agent.batch => Covered(j)'
  BY ShipAddsOne DEF ClocksAgree
<1>3. Before' = Before /\ Before \in Int /\ Before + 2 = 2 * starts
  BY <1>0, <1>1 DEF Before
<1>4. /\ {agent.begin, agent.since, agent.now, agent.awake, agent.last} \subseteq Seconds
      /\ {agent.begin, agent.since, agent.now, agent.awake} \subseteq Nat
      /\ agent.now <= clock /\ agent.since <= clock /\ starts >= 1
      /\ agent.batch \subseteq DOMAIN journal /\ agent.batch \subseteq Lines
  BY <1>1, AgentUpdates DEF ClocksAgree
<1>5. /\ agent'.pc = "wait" /\ agent'.begin = agent.begin
      /\ agent'.since = agent.since /\ agent'.now = agent.now
      /\ agent'.awake = agent.awake /\ agent'.batch = {}
      /\ agent' \in Running
  <2>1. agent' \in Running
    BY <1>1, AgentUpdates DEF Ship
  <2>. QED
    BY <1>1, <2>1 DEF Ship, Running
<1>6. ShippingTypeOK'
  <2>1. [run |-> starts, sent |-> agent.now, left |-> agent.batch] \in Handler
    BY <1>0, <1>4 DEF Handler, ShippingTypeOK
  <2>2. handlers' \subseteq Handler /\ missed' \subseteq Lines
    BY <2>1, <1>4 DEF Ship, ShippingTypeOK
  <2>. QED
    BY <1>1, <1>5, <2>2, AgentShape DEF ShippingTypeOK
<1>7. ClocksAgree'
  BY <1>1, <1>2, <1>4, <1>5 DEF ClocksAgree
<1>8. WindowsMeet'
  BY <1>0, <1>1, <1>2, <1>5 DEF WindowsMeet
<1>9. ShippedTwice'
  <2>1. SUFFICES ASSUME os = "linux" PROVE ShippedTwice'
    BY <1>1 DEF ShippedTwice
  <2>2. ASSUME NEW j \in Lines \ DOMAIN journal PROVE Total(j)' = 0
    <3>1. Total(j) = 0 /\ j \notin agent.batch
      BY <2>1, <1>4 DEF ShippedTwice
    <3>. QED
      BY <3>1, <1>2
  <2>3. ASSUME NEW j \in Lines PROVE Total(j)' <= 2 * starts
    <3>1. CASE j \in agent.batch
      <4>1. Total(j) <= Before + 1
        BY <2>1, <3>1, <1>1, <1>4 DEF ShippedTwice
      <4>. QED
        BY <4>1, <1>2, <1>3
    <3>2. CASE j \notin agent.batch
      <4>1. Total(j) <= 2 * starts
        BY <2>1 DEF ShippedTwice
      <4>. QED
        BY <3>2, <4>1, <1>0, <1>2
    <3>. QED
      BY <3>1, <3>2
  <2>4. ASSUME NEW j \in DOMAIN journal, journal[j] >= agent.now
        PROVE  Total(j)' <= Before + 1
    <3>1. Total(j) <= Before
      BY <2>1, <2>4, <1>1 DEF ShippedTwice
    <3>. QED
      BY <3>1, <1>0, <1>2, <1>3
  <2>. QED
    BY <2>1, <2>2, <2>3, <2>4, <1>1, <1>3, <1>5 DEF ShippedTwice
<1>. QED
  BY <1>6, <1>7, <1>8, <1>9

\* Every step keeps the invariant.
LEMMA ShippingStep == ASSUME ShippingInv, [ShippingNext]_shippingVars PROVE ShippingInv'
<1>1. CASE UNCHANGED shippingVars
  <2>1. /\ os' = os /\ clock' = clock /\ journal' = journal /\ agent' = agent
        /\ handlers' = handlers /\ copies' = copies /\ starts' = starts
        /\ missed' = missed
    BY <1>1 DEF shippingVars
  <2>2. /\ ShippingTypeOK' = ShippingTypeOK /\ ClocksAgree' = ClocksAgree
        /\ WindowsMeet' = WindowsMeet /\ ShippedTwice' = ShippedTwice
    BY <2>1 DEF ShippingTypeOK, ClocksAgree, WindowsMeet, ShippedTwice, Total, Carriers,
                Before, Covered
  <2>. QED
    BY <2>2 DEF ShippingInv
<1>2. CASE ShippingNext
  BY <1>2, WorldKeeps, ServerKeeps, RunKeeps, LoopKeeps, ReadKeeps, ShipKeeps
     DEF ShippingNext
<1>. QED
  BY <1>1, <1>2

\* Log shipping (main_loop, ingest_logs): every state is well typed.
THEOREM ShippingIsTyped == ShippingSpec => []ShippingTypeOK
<1>1. ShippingInv => ShippingTypeOK
  BY DEF ShippingInv
<1>. QED
  BY <1>1, ShippingStart, ShippingStep, PTL DEF ShippingSpec

\* What a run's windows have passed is stored, about to be, or among what was lost.
LEMMA NoEntryIsForgotten == ShippingInv => LossHasACause
<1>. SUFFICES ASSUME ShippingInv, agent.pc # "down", NEW i \in DOMAIN journal,
                     agent.begin <= journal[i], journal[i] < agent.since
     PROVE  Covered(i)
  BY DEF LossHasACause, Covered
<1>. USE DEF ShippingInv
<1>. QED
  BY DEF WindowsMeet

\* No entry falls between two windows of a run of the agent (main_loop,
\* ingest_logs), whatever is written while it collects, posts and sleeps.
THEOREM LossesHaveCauses == ShippingSpec => []LossHasACause
  BY NoEntryIsForgotten, ShippingStart, ShippingStep, PTL DEF ShippingSpec

\* An entry of a Linux journal is stored at most twice for each start of the agent,
\* with batches that are still being inserted counted.
THEOREM CopiesStayBounded == ShippingSpec => []CopiesAreBounded
<1>1. ShippingInv => CopiesAreBounded
  BY DEF ShippingInv, ShippedTwice, CopiesAreBounded, Total, Carriers
<1>. QED
  BY <1>1, ShippingStart, ShippingStep, PTL DEF ShippingSpec

===================================================================================
