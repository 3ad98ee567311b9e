---------------------------------- MODULE Push ----------------------------------
(***************************************************************************)
(* Web Push (vpsmon/push.py) and its browsers (static/js/push.js): the     *)
(* VAPID key pair that a start generates unless both halves are stored,    *)
(* the subscriptions browsers make with the public half, and the broadcast *)
(* of an alert, signed with the private one.  A push service takes a       *)
(* message only from the key its subscription was made with.               *)
(*                                                                         *)
(* A key is the number of its generation, 0 is None.  The two halves are   *)
(* stored by two statements, and the process may die between them.         *)
(***************************************************************************)
EXTENDS Naturals, FiniteSets

CONSTANTS
    Browsers,
    MaxKeys,     \* bound: key pairs generated
    MaxRenewals  \* bound: subscriptions of one browser

ASSUME PushAssumption == {MaxKeys, MaxRenewals} \subseteq Nat

VARIABLES
    settings,   \* app_settings: vapid_public and vapid_private
    vapid,      \* the module's _vapid
    boot,       \* where init_vapid is
    keys,       \* key pairs generated so far
    subs,       \* push_subscriptions: the UNIQUE endpoint, and the key it was made with
    browser,    \* the key its page has cached; its PushManager's subscription
    pushed      \* history: the last broadcast: endpoints owed it, endpoints that took it

pushVars == <<settings, vapid, boot, keys, subs, browser, pushed>>

KeyPair == [public : 0..MaxKeys, private : 0..MaxKeys]
NoKeys == [public |-> 0, private |-> 0]
NoPush == [owed |-> {}, took |-> {}]

\* The endpoint is the push service's name of a browser's n-th subscription.
Endpoints == Browsers \X (1..MaxRenewals)
Subscription == [endpoint : Endpoints, key : 1..MaxKeys]
Browser == [page : 0..MaxKeys, key : 0..MaxKeys, nth : 0..MaxRenewals]

PushInit ==
    /\ settings = NoKeys /\ vapid = NoKeys
    /\ boot = "down"
    /\ keys = 0
    /\ subs = {}
    /\ browser = [b \in Browsers |-> [page |-> 0, key |-> 0, nth |-> 0]]
    /\ pushed = NoPush

-----------------------------------------------------------------------------
(* init_vapid, awaited before the loops start and the port is opened.       *)

\* Mutant: the public half alone is taken for a stored pair.
PublicIsStored == settings.public # 0
PairIsStored == settings.public # 0 /\ settings.private # 0

LoadKeys ==
    /\ boot = "down" /\ PairIsStored
    /\ vapid' = settings
    /\ boot' = "up"
    /\ UNCHANGED <<settings, keys, subs, browser, pushed>>

GenerateKeys ==
    /\ boot = "down" /\ ~PairIsStored
    /\ keys < MaxKeys
    /\ keys' = keys + 1
    /\ boot' = "public"
    /\ UNCHANGED <<settings, vapid, subs, browser, pushed>>

StorePublic ==
    /\ boot = "public"
    /\ settings' = [public |-> keys, private |-> settings.private]
    /\ boot' = "private"
    /\ UNCHANGED <<vapid, keys, subs, browser, pushed>>

StorePrivate ==
    /\ boot = "private"
    /\ settings' = [public |-> settings.public, private |-> keys]
    /\ vapid' = [public |-> keys, private |-> keys]
    /\ boot' = "up"
    /\ UNCHANGED <<keys, subs, browser, pushed>>

\* The library is missing or a statement fails: the server runs without keys.
KeygenFails ==
    /\ \/ boot \in {"public", "private"}
       \/ boot = "down" /\ ~PairIsStored
    /\ boot' = "up"
    /\ UNCHANGED <<settings, vapid, keys, subs, browser, pushed>>

PushRestart ==
    /\ boot # "down"
    /\ boot' = "down"
    /\ vapid' = NoKeys
    /\ UNCHANGED <<settings, keys, subs, browser, pushed>>

-----------------------------------------------------------------------------
(* The browsers and the handlers of their requests.                        *)

\* getVapidKey: fetched once per page, 503 without a key.
FetchKey(b) ==
    /\ boot = "up" /\ vapid.public # 0
    /\ browser[b].page = 0
    /\ browser' = [browser EXCEPT ![b].page = vapid.public]
    /\ UNCHANGED <<settings, vapid, boot, keys, subs, pushed>>

LeavePage(b) ==
    /\ browser[b].page # 0
    /\ browser' = [browser EXCEPT ![b].page = 0]
    /\ UNCHANGED <<settings, vapid, boot, keys, subs, pushed>>

\* pushManager.subscribe, unless there is a subscription already.
SubscribeBrowser(b) ==
    /\ browser[b].page # 0 /\ browser[b].key = 0
    /\ browser[b].nth < MaxRenewals
    /\ browser' = [browser EXCEPT ![b].key = browser[b].page, ![b].nth = browser[b].nth + 1]
    /\ UNCHANGED <<settings, vapid, boot, keys, subs, pushed>>

EndpointOf(b) == <<b, browser[b].nth>>
Without(e) == {s \in subs : s.endpoint # e}

\* subscribe: INSERT OR REPLACE by endpoint.
SubscribeServer(b) ==
    /\ boot = "up"
    /\ browser[b].page # 0 /\ browser[b].key # 0
    /\ subs' = Without(EndpointOf(b)) \cup {[endpoint |-> EndpointOf(b), key |-> browser[b].key]}
    /\ UNCHANGED <<settings, vapid, boot, keys, browser, pushed>>

\* The page awaits the answer, whatever it is, before it ends its own subscription;
\* closed or cut off in between, it keeps it.
UnsubscribeServer(b) ==
    /\ boot = "up"
    /\ browser[b].key # 0
    /\ subs' = Without(EndpointOf(b))
    /\ UNCHANGED <<settings, vapid, boot, keys, browser, pushed>>

UnsubscribeBrowser(b) ==
    /\ boot = "up"
    /\ browser[b].key # 0
    /\ browser' = [browser EXCEPT ![b].key = 0]
    /\ UNCHANGED <<settings, vapid, boot, keys, subs, pushed>>

-----------------------------------------------------------------------------
(* broadcast.                                                              *)

Live(s) == \E b \in Browsers : s.endpoint = EndpointOf(b) /\ browser[b].key # 0

\* dict(zip(cols, r)): db.execute gives dicts, and zip takes a dict's keys, so that
\* every field holds the name of its column, which is nobody's endpoint or key.
ColumnNames == [endpoint |-> <<"endpoint", 0>>, key |-> 0]
ListSubscriptions == {ColumnNames : s \in subs}

\* What webpush makes of a subscription.  An endpoint that is no URL is an error like
\* any other; 404 and 410 say that the browser has unsubscribed.
Outcome(s) == IF s.endpoint \notin Endpoints \/ s.key # vapid.private THEN "error"
              ELSE IF Live(s) THEN "taken" ELSE "stale"

\* One request per subscription, in parallel; a stale one is deleted.  Those that
\* fail for another reason stay.
Broadcast ==
    /\ boot = "up" /\ vapid.private # 0
    /\ LET listed == ListSubscriptions IN
         /\ pushed' = [owed |-> {s.endpoint : s \in {r \in subs : Live(r)}},
                       took |-> {s.endpoint : s \in {r \in listed : Outcome(r) = "taken"}}]
         /\ subs' = {s \in subs : ~\E r \in listed : /\ r.endpoint = s.endpoint
                                                     /\ Outcome(r) = "stale"}
    /\ UNCHANGED <<settings, vapid, boot, keys, browser>>

PushNext ==
    \/ LoadKeys \/ GenerateKeys \/ StorePublic \/ StorePrivate \/ KeygenFails \/ PushRestart
    \/ \E b \in Browsers :
         \/ FetchKey(b) \/ LeavePage(b)
         \/ SubscribeBrowser(b) \/ SubscribeServer(b)
         \/ UnsubscribeServer(b) \/ UnsubscribeBrowser(b)
    \/ Broadcast

PushSpec == PushInit /\ [][PushNext]_pushVars

-----------------------------------------------------------------------------
(* Properties.                                                             *)

\* Every state is well typed.
PushTypeOK ==
    /\ settings \in KeyPair /\ vapid \in KeyPair
    /\ boot \in {"down", "public", "private", "up"}
    /\ keys \in 0..MaxKeys
    /\ subs \subseteq Subscription
    /\ browser \in [Browsers -> Browser]
    /\ \A e \in pushed.owed \cup pushed.took : e \in Endpoints

\* However often init_vapid dies between its two statements or fails, a running server
\* signs with the other half of the key it hands out, and it is the key of every
\* subscription it has stored: no subscription is ever orphaned by a new pair.
KeysMatchSubscriptions ==
    /\ vapid.public = vapid.private
    /\ vapid.private # 0 => \A s \in subs : s.key = vapid.private

\* broadcast sends "a push payload to all subscriptions" (vpsmon/push.py:202): when the
\* push service accepts everything, a broadcast reaches each browser that is subscribed.
BroadcastReachesAll == pushed.owed \subseteq pushed.took

=============================================================================
