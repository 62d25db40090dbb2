------------------------------ MODULE SavedCards ------------------------------
(***************************************************************************)
(* The saved payment cards of one user.  Cards live in the vault of the    *)
(* provider (Omise) under a customer object; the profile row remembers     *)
(* the customer's id and the preferred card, and the table                 *)
(* cache_saved_payment_methods a list of the cards, good for ten minutes.  *)
(*                                                                         *)
(* Two edge functions work on them, any number of invocations at a time:   *)
(* manage-payment-methods (add-card, delete-card) and                      *)
(* get-saved-payment-methods.  Each is a chain of awaited calls without a  *)
(* transaction, so every call is a step of its own and what an earlier     *)
(* call returned may be out of date when a later one uses it.              *)
(***************************************************************************)
EXTENDS Integers

CONSTANTS
  Cards,       \* cards the user adds, each with the add-card request for it
  Readers,     \* invocations of get-saved-payment-methods
  Email,       \* the customer id kyc_service.go writes: the user's email
  None,        \* SQL NULL; no row
  MaxFaults    \* bound: killed invocations, dropped writes and lost replies

ASSUME SentinelAssumption == Email \notin Cards /\ None \notin Cards /\ Email # None
ASSUME FaultsAssumption == MaxFaults \in Nat

\* A customer object is named after the card whose add-card request created it.
Customers == Cards

VARIABLES
  vault,       \* vault[k]: cards attached to customer k at Omise
  created,     \* customers created at Omise
  customer,    \* profiles.external_customer_id
  preferred,   \* profiles.preferred_payment_method_id
  cache,       \* payment_methods_json of the cache row, None when there is none
               \* or it is older than CACHE_TTL_MS: no code reads an expired row
  apc, acust,  \* add-card of card c: where it stands, external_customer_id as read
  dpc, dprof,  \* delete-card of card c: where it stands, the profile as read
  todo,        \* todo[c]: database calls of delete-card's Promise.all still running
  rpc, rprof,  \* get of reader r: where it stands, the profile as read
  got,         \* got[r]: the customer's cards and default card as fetched
  torn,        \* history: cards changed at Omise under a request that acts on an older view
  faults       \* faults so far

profile == <<customer, preferred>>
adds == <<apc, acust>>
deletes == <<dpc, dprof, todo>>
reads == <<rpc, rprof, got>>
omise == <<vault, created, torn>>

vars == <<omise, profile, cache, adds, deletes, reads, faults>>

Profile == [customer : Cards \union {Email, None}, preferred : Cards \union {None}]
NoProfile == [customer |-> None, preferred |-> None]
Fetched == [cards : SUBSET Cards, default : Cards \union {None}]
Nothing == [cards |-> {}, default |-> None]

\* The cards of a customer id: those of an unknown customer are none.
CardsOf(k) == IF k \in created THEN vault[k] ELSE {}

Init ==
  /\ vault = [k \in Customers |-> {}]
  /\ created = {}
  /\ customer = None
  /\ preferred = None
  /\ cache = None
  /\ apc = [c \in Cards |-> "idle"]
  /\ acust = [c \in Cards |-> None]
  /\ dpc = [c \in Cards |-> "idle"]
  /\ dprof = [c \in Cards |-> NoProfile]
  /\ todo = [c \in Cards |-> {}]
  /\ rpc = [r \in Readers |-> "idle"]
  /\ rprof = [r \in Readers |-> NoProfile]
  /\ got = [r \in Readers |-> Nothing]
  /\ torn = {}
  /\ faults = 0

-----------------------------------------------------------------------------
(* Faults.  A write through the Supabase client reports its error in the   *)
(* result instead of throwing, and no write here looks at it.              *)

Fault == faults < MaxFaults /\ faults' = faults + 1

DropCache == \/ cache' = None /\ UNCHANGED faults
             \/ Fault /\ UNCHANGED cache

\* A reader that has fetched but not finished, or a delete-card whose profile
\* is no longer what it read, acts on a view from before the change.
Unseen(c) == \/ \E r \in Readers : rpc[r] \in {"store", "sync"}
             \/ dpc[c] = "vault" /\ dprof[c].preferred # preferred

Changes(c) == torn' = IF Unseen(c) THEN torn \union {c} ELSE torn

-----------------------------------------------------------------------------
(* add-card.                                                               *)

AddStartNames(c) ==         \* mutant
  /\ apc[c] = "idle"
  /\ apc' = [apc EXCEPT ![c] = "vault"]
  /\ customer' = IF customer = None THEN c ELSE customer
  /\ acust' = [acust EXCEPT ![c] = customer]
  /\ UNCHANGED <<omise, preferred, cache, deletes, reads, faults>>
AddStart(c) ==
  /\ apc[c] = "idle"
  /\ apc' = [apc EXCEPT ![c] = "vault"]
  /\ acust' = [acust EXCEPT ![c] = customer]
  /\ UNCHANGED <<omise, profile, cache, deletes, reads, faults>>

\* Case A: no customer yet; create one with the card.  The reply may be lost.
AddCreate(c) ==
  /\ apc[c] = "vault"
  /\ acust[c] = None
  /\ vault' = [vault EXCEPT ![c] = {c}]
  /\ created' = created \union {c}
  /\ Changes(c)
  /\ \/ apc' = [apc EXCEPT ![c] = "store"] /\ UNCHANGED faults
     \/ apc' = [apc EXCEPT ![c] = "failed"] /\ Fault
  /\ acust' = [acust EXCEPT ![c] = None]
  /\ UNCHANGED <<profile, cache, deletes, reads>>

\* Case B: attach the card to the customer the profile named.
AddAttach(c) ==
  /\ apc[c] = "vault"
  /\ acust[c] \in created
  /\ vault' = [vault EXCEPT ![acust[c]] = @ \union {c}]
  /\ Changes(c)
  /\ \/ apc' = [apc EXCEPT ![c] = "invalidate"] /\ UNCHANGED faults
     \/ apc' = [apc EXCEPT ![c] = "failed"] /\ Fault
  /\ acust' = [acust EXCEPT ![c] = None]
  /\ UNCHANGED <<created, profile, cache, deletes, reads>>

\* Omise refuses the token, or does not know the customer: answered 400.
AddRefused(c) ==
  /\ apc[c] = "vault"
  /\ apc' = [apc EXCEPT ![c] = "failed"]
  /\ acust' = [acust EXCEPT ![c] = None]
  /\ UNCHANGED <<omise, profile, cache, deletes, reads, faults>>

AddStoreSkipped(c) ==       \* mutant
  /\ apc[c] = "store"
  /\ apc' = [apc EXCEPT ![c] = "invalidate"]
  /\ UNCHANGED <<omise, profile, cache, acust, deletes, reads, faults>>
AddStore(c) ==
  /\ apc[c] = "store"
  /\ apc' = [apc EXCEPT ![c] = "invalidate"]
  /\ \/ customer' = c /\ UNCHANGED faults
     \/ Fault /\ UNCHANGED customer
  /\ UNCHANGED <<omise, preferred, cache, acust, deletes, reads>>

AddInvalidateSkipped(c) ==  \* mutant
  /\ apc[c] = "invalidate"
  /\ apc' = [apc EXCEPT ![c] = "added"]
  /\ UNCHANGED <<omise, profile, cache, acust, deletes, reads, faults>>
AddInvalidate(c) ==
  /\ apc[c] = "invalidate"
  /\ apc' = [apc EXCEPT ![c] = "added"]
  /\ DropCache
  /\ UNCHANGED <<omise, profile, acust, deletes, reads>>

-----------------------------------------------------------------------------
(* delete-card.  The query for pending transactions before it has no       *)
(* effect: its result is not used.                                         *)

DeleteStart(c) ==
  /\ dpc[c] = "idle"
  /\ \E k \in created : c \in vault[k]
  /\ IF customer = None
       THEN dpc' = [dpc EXCEPT ![c] = "failed"] /\ UNCHANGED dprof
       ELSE /\ dpc' = [dpc EXCEPT ![c] = "vault"]
            /\ dprof' = [dprof EXCEPT ![c] = [customer |-> customer, preferred |-> preferred]]
  /\ UNCHANGED <<omise, profile, cache, adds, todo, reads, faults>>

CleanupForgetsPreference(c) == {"cache"}   \* mutant
Cleanup(c) == {"cache"} \union (IF dprof[c].preferred = c THEN {"preference"} ELSE {})

DeleteAtVault(c) ==
  /\ dpc[c] = "vault"
  /\ c \in CardsOf(dprof[c].customer)
  /\ vault' = [vault EXCEPT ![dprof[c].customer] = @ \ {c}]
  /\ Changes(c)
  /\ \/ /\ dpc' = [dpc EXCEPT ![c] = "cleanup"]
        /\ todo' = [todo EXCEPT ![c] = Cleanup(c)]
        /\ UNCHANGED faults
     \/ dpc' = [dpc EXCEPT ![c] = "failed"] /\ Fault /\ UNCHANGED todo
  /\ dprof' = [dprof EXCEPT ![c] = NoProfile]
  /\ UNCHANGED <<created, profile, cache, adds, reads>>

DeleteRefused(c) ==
  /\ dpc[c] = "vault"
  /\ dpc' = [dpc EXCEPT ![c] = "failed"]
  /\ dprof' = [dprof EXCEPT ![c] = NoProfile]
  /\ UNCHANGED <<omise, profile, cache, adds, todo, reads, faults>>

\* The two calls of Promise.all, in either order.
DeleteInvalidate(c) ==
  /\ "cache" \in todo[c]
  /\ todo' = [todo EXCEPT ![c] = @ \ {"cache"}]
  /\ DropCache
  /\ UNCHANGED <<omise, profile, adds, dpc, dprof, reads>>

DeletePreference(c) ==
  /\ "preference" \in todo[c]
  /\ todo' = [todo EXCEPT ![c] = @ \ {"preference"}]
  /\ \/ preferred' = None /\ UNCHANGED faults
     \/ Fault /\ UNCHANGED preferred
  /\ UNCHANGED <<omise, customer, cache, adds, dpc, dprof, reads>>

DeleteDone(c) ==
  /\ dpc[c] = "cleanup"
  /\ todo[c] = {}
  /\ dpc' = [dpc EXCEPT ![c] = "deleted"]
  /\ UNCHANGED <<omise, profile, cache, adds, dprof, todo, reads, faults>>

-----------------------------------------------------------------------------
(* get-saved-payment-methods.                                              *)

ReadProfile(r) ==
  /\ rpc[r] = "idle"
  /\ customer # None              \* otherwise it answers an empty list at once
  /\ rpc' = [rpc EXCEPT ![r] = "cache"]
  /\ rprof' = [rprof EXCEPT ![r] = [customer |-> customer, preferred |-> preferred]]
  /\ UNCHANGED <<omise, profile, cache, adds, deletes, got, faults>>

Hit == cache # None

\* The answer is on its way; what the request had read is forgotten.
Answer(r) == /\ rpc' = [rpc EXCEPT ![r] = "idle"]
             /\ rprof' = [rprof EXCEPT ![r] = NoProfile]
             /\ got' = [got EXCEPT ![r] = Nothing]

ReadCache(r) ==
  /\ rpc[r] = "cache"
  /\ IF Hit THEN Answer(r)
            ELSE rpc' = [rpc EXCEPT ![r] = "fetch"] /\ UNCHANGED <<rprof, got>>
  /\ UNCHANGED <<omise, profile, cache, adds, deletes, faults>>

\* Omise names one of the customer's cards its default card.
FetchCustomer(r) ==
  /\ rpc[r] = "fetch"
  /\ rprof[r].customer \in created
  /\ \E default \in Cards \union {None} :
       /\ IF vault[rprof[r].customer] = {} THEN default = None
                                           ELSE default \in vault[rprof[r].customer]
       /\ got' = [got EXCEPT ![r] = [cards |-> vault[rprof[r].customer], default |-> default]]
  /\ rpc' = [rpc EXCEPT ![r] = "store"]
  /\ UNCHANGED <<omise, profile, cache, adds, deletes, rprof, faults>>

FetchFails(r) ==
  /\ rpc[r] = "fetch"
  /\ Answer(r)
  /\ UNCHANGED <<omise, profile, cache, adds, deletes, faults>>

UpsertCache(r) ==
  /\ rpc[r] = "store"
  /\ rpc' = [rpc EXCEPT ![r] = "sync"]
  /\ \/ cache' = got[r].cards /\ UNCHANGED faults
     \/ Fault /\ UNCHANGED cache
  /\ UNCHANGED <<omise, profile, adds, deletes, rprof, got>>

Syncs(r) == rprof[r].preferred = None /\ got[r].default # None

AutoSync(r) ==
  /\ rpc[r] = "sync"
  /\ Answer(r)
  /\ IF Syncs(r)
       THEN \/ preferred' = got[r].default /\ UNCHANGED faults
            \/ Fault /\ UNCHANGED preferred
       ELSE UNCHANGED <<preferred, faults>>
  /\ UNCHANGED <<omise, customer, cache, adds, deletes>>

-----------------------------------------------------------------------------
(* The environment.                                                        *)

\* Ten minutes pass since updated_at.
ExpireNever == FALSE /\ UNCHANGED vars   \* mutant
Expire ==
  /\ Hit
  /\ cache' = None
  /\ UNCHANGED <<omise, profile, adds, deletes, reads, faults>>

\* Registering for KYC fills the same column when it is empty.
KycRegister ==
  /\ customer = None
  /\ customer' = Email
  /\ UNCHANGED <<omise, preferred, cache, adds, deletes, reads, faults>>

\* The platform ends an invocation between two calls.
KillAdd(c) ==
  /\ apc[c] \in {"store", "invalidate"}
  /\ Fault
  /\ apc' = [apc EXCEPT ![c] = "failed"]
  /\ UNCHANGED <<omise, profile, cache, acust, deletes, reads>>

KillDelete(c) ==
  /\ dpc[c] = "cleanup"
  /\ Fault
  /\ dpc' = [dpc EXCEPT ![c] = "failed"]
  /\ todo' = [todo EXCEPT ![c] = {}]
  /\ UNCHANGED <<omise, profile, cache, adds, dprof, reads>>

KillRead(r) ==
  /\ rpc[r] \in {"store", "sync"}
  /\ Fault
  /\ Answer(r)
  /\ UNCHANGED <<omise, profile, cache, adds, deletes>>

-----------------------------------------------------------------------------
Add(c) == AddStart(c) \/ AddCreate(c) \/ AddAttach(c) \/ AddRefused(c)
            \/ AddStore(c) \/ AddInvalidate(c)

Delete(c) == DeleteStart(c) \/ DeleteAtVault(c) \/ DeleteRefused(c)
               \/ DeleteInvalidate(c) \/ DeletePreference(c) \/ DeleteDone(c)

Read(r) == ReadProfile(r) \/ ReadCache(r) \/ FetchCustomer(r) \/ FetchFails(r)
             \/ UpsertCache(r) \/ AutoSync(r)

Next ==
  \/ \E c \in Cards : Add(c) \/ Delete(c) \/ KillAdd(c) \/ KillDelete(c)
  \/ \E r \in Readers : Read(r) \/ KillRead(r)
  \/ Expire
  \/ KycRegister

Spec == Init /\ [][Next]_vars

\* A request that has been received runs to its end, and time passes.
\* Nothing makes the user send one.
Fairness ==
  /\ \A c \in Cards : /\ WF_vars(apc[c] # "idle" /\ Add(c))
                      /\ WF_vars(dpc[c] # "idle" /\ Delete(c))
  /\ \A r \in Readers : WF_vars(rpc[r] # "idle" /\ Read(r))
  /\ WF_vars(Expire)

FairSpec == Spec /\ Fairness

-----------------------------------------------------------------------------
(* Properties.                                                             *)

\* Where every request, the profile and the cache may stand.
TypeOK ==
  /\ vault \in [Customers -> SUBSET Cards]
  /\ created \subseteq Customers
  /\ customer \in created \union {Email, None}
  /\ preferred \in Cards \union {None}
  /\ cache \in (SUBSET Cards) \union {None}
  /\ apc \in [Cards -> {"idle", "vault", "store", "invalidate", "added", "failed"}]
  /\ acust \in [Cards -> Cards \union {Email, None}]
  /\ dpc \in [Cards -> {"idle", "vault", "cleanup", "deleted", "failed"}]
  /\ dprof \in [Cards -> Profile]
  /\ todo \in [Cards -> SUBSET {"cache", "preference"}]
  /\ rpc \in [Readers -> {"idle", "cache", "fetch", "store", "sync"}]
  /\ rprof \in [Readers -> Profile]
  /\ got \in [Readers -> Fetched]
  /\ torn \subseteq Cards
  /\ faults \in 0..MaxFaults

\* No two add-card requests have each created a customer.
OneCustomer == \A k, l \in created : k = l

Changing(c) == apc[c] \in {"store", "invalidate"} \/ "cache" \in todo[c]

\* While nothing fails and only one customer object exists, a cached list that
\* get-saved-payment-methods would answer from differs from the vault only in
\* cards whose change is still to be followed by its invalidation, or that
\* were changed under a reader which then stored what it had fetched before.
CacheAgrees ==
  Hit /\ faults = 0 /\ created \subseteq {customer} =>
    \A c \in Cards : (c \in cache) # (c \in CardsOf(customer)) =>
                       Changing(c) \/ c \in torn

\* Under the same conditions the preferred card of the profile is a card the
\* customer has, unless its deletion is about to clear it or went on together
\* with a get-saved-payment-methods that had seen no preference.
PreferenceExists ==
  preferred # None /\ faults = 0 /\ created \subseteq {customer} =>
    \/ preferred \in CardsOf(customer)
    \/ "preference" \in todo[preferred]
    \/ preferred \in torn

\* A card whose add-card was answered with success is attached to the
\* profile's customer until it is deleted, unless two requests each found no
\* customer and created one, or a write was dropped.
AddedIsListed ==
  \A c \in Cards :
    apc[c] = "added" /\ faults = 0 /\ OneCustomer =>
      c \in CardsOf(customer) \/ dpc[c] \in {"cleanup", "deleted"}

\* When no more cards are added or deleted, the answers become right and stay
\* so: a list that was cached too late, or whose invalidation got lost, is
\* served for ten minutes and not longer.
EventuallyAccurate == <>[](Hit => cache = CardsOf(customer))

=============================================================================
