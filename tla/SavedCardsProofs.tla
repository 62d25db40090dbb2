-------------------------- MODULE SavedCardsProofs --------------------------
(***************************************************************************)
(* Theorems about SavedCards, for any number of cards, concurrent          *)
(* invocations and faults: the safety properties, from one invariant that  *)
(* says what each request may still do with what it has read.              *)
(***************************************************************************)
EXTENDS SavedCards, TLAPS

-----------------------------------------------------------------------------
(* Types.  AddStore writes a customer id into the profile: that the        *)
(* customer exists is not in the profile's type but in where add-card is.  *)

\* A card reaches the vault only through its own add-card.
Fresh == \A c \in Cards :
  apc[c] \in {"idle", "vault"} => c \notin created /\ \A k \in Customers : c \notin vault[k]
Stored == \A c \in Cards : apc[c] = "store" => c \in created

\* A customer id is never taken out of the profile again.
Named == \A c \in Cards : acust[c] \in Cards => customer \in Cards

TypeInv == TypeOK /\ Fresh /\ Stored /\ Named

LEMMA InitType == Init => TypeInv
BY SentinelAssumption, FaultsAssumption
   DEF Init, TypeInv, TypeOK, Fresh, Stored, Named, Customers, Profile, NoProfile, Fetched, Nothing

LEMMA FaultType == ASSUME TypeOK, Fault \/ UNCHANGED faults PROVE faults' \in 0..MaxFaults
BY FaultsAssumption DEF TypeOK, Fault

LEMMA AddType ==
  ASSUME TypeInv, NEW c \in Cards, Add(c) \/ KillAdd(c)
  PROVE  TypeInv'
<1> USE SentinelAssumption, FaultType DEF TypeInv, TypeOK, Fresh, Stored, Named, Customers
<1>1. CASE AddStart(c)
  BY <1>1 DEF AddStart, omise, profile, deletes, reads
<1>2. CASE AddCreate(c)
  BY <1>2 DEF AddCreate, Changes, profile, deletes, reads
<1>3. CASE AddAttach(c)
  BY <1>3 DEF AddAttach, Changes, profile, deletes, reads
<1>4. CASE AddRefused(c)
  BY <1>4 DEF AddRefused, omise, profile, deletes, reads
<1>5. CASE AddStore(c)
  BY <1>5 DEF AddStore, omise, deletes, reads
<1>6. CASE AddInvalidate(c)
  BY <1>6 DEF AddInvalidate, DropCache, omise, profile, deletes, reads
<1>7. CASE KillAdd(c)
  BY <1>7 DEF KillAdd, omise, profile, deletes, reads
<1> QED
  BY <1>1, <1>2, <1>3, <1>4, <1>5, <1>6, <1>7 DEF Add

LEMMA DeleteType ==
  ASSUME TypeInv, NEW c \in Cards, Delete(c) \/ KillDelete(c)
  PROVE  TypeInv'
<1> USE SentinelAssumption, FaultType
    DEF TypeInv, TypeOK, Fresh, Stored, Named, Customers, Profile, NoProfile
<1>1. CASE DeleteStart(c)
  <2>1. [customer |-> customer, preferred |-> preferred] \in Profile
    OBVIOUS
  <2>2. dprof' \in [Cards -> Profile]
    BY <1>1, <2>1 DEF DeleteStart
  <2> QED
    BY <1>1, <2>2 DEF DeleteStart, omise, profile, adds, reads
<1>2. CASE DeleteAtVault(c)
  <2>1. NoProfile \in Profile
    OBVIOUS
  <2>2. dprof' \in [Cards -> Profile]
    BY <1>2, <2>1 DEF DeleteAtVault
  <2>3. dprof[c].customer \in Customers
    BY <1>2 DEF DeleteAtVault, CardsOf
  <2>4. /\ vault' \in [Customers -> SUBSET Cards]
        /\ \A k \in Customers : vault'[k] \subseteq vault[k]
    BY <1>2, <2>3 DEF DeleteAtVault
  <2>5. todo' \in [Cards -> SUBSET {"cache", "preference"}]
    BY <1>2 DEF DeleteAtVault, Cleanup
  <2>6. torn' \subseteq Cards
    BY <1>2 DEF DeleteAtVault, Changes
  <2>7. dpc' \in [Cards -> {"idle", "vault", "cleanup", "deleted", "failed"}]
    BY <1>2 DEF DeleteAtVault
  <2> QED
    BY <1>2, <2>2, <2>4, <2>5, <2>6, <2>7 DEF DeleteAtVault, profile, adds, reads
<1>3. CASE DeleteRefused(c)
  BY <1>3 DEF DeleteRefused, omise, profile, adds, reads
<1>4. CASE DeleteInvalidate(c)
  BY <1>4 DEF DeleteInvalidate, DropCache, omise, profile, adds, reads
<1>5. CASE DeletePreference(c)
  BY <1>5 DEF DeletePreference, omise, adds, reads
<1>6. CASE DeleteDone(c)
  BY <1>6 DEF DeleteDone, omise, profile, adds, reads
<1>7. CASE KillDelete(c)
  BY <1>7 DEF KillDelete, omise, profile, adds, reads
<1> QED
  BY <1>1, <1>2, <1>3, <1>4, <1>5, <1>6, <1>7 DEF Delete

LEMMA AnswerType ==
  ASSUME TypeOK, NEW r \in Readers, Answer(r)
  PROVE  /\ rpc' \in [Readers -> {"idle", "cache", "fetch", "store", "sync"}]
         /\ rprof' \in [Readers -> Profile]
         /\ got' \in [Readers -> Fetched]
<1>1. NoProfile \in Profile /\ Nothing \in Fetched
  BY DEF NoProfile, Profile, Nothing, Fetched
<1> QED
  BY <1>1 DEF TypeOK, Answer

LEMMA ReadType ==
  ASSUME TypeInv, NEW r \in Readers, Read(r) \/ KillRead(r)
  PROVE  TypeInv'
<1> USE SentinelAssumption, FaultType, AnswerType
    DEF TypeInv, TypeOK, Fresh, Stored, Named, Customers, Profile, NoProfile, Fetched, Nothing
<1>1. CASE ReadProfile(r)
  <2>1. [customer |-> customer, preferred |-> preferred] \in Profile
    OBVIOUS
  <2>2. rprof' \in [Readers -> Profile]
    BY <1>1, <2>1 DEF ReadProfile
  <2> QED
    BY <1>1, <2>2 DEF ReadProfile, omise, profile, adds, deletes
<1>2. CASE ReadCache(r)
  BY <1>2 DEF ReadCache, omise, profile, adds, deletes
<1>3. CASE FetchCustomer(r)
  <2>1. PICK default \in Cards \union {None} :
          got' = [got EXCEPT ![r] = [cards |-> vault[rprof[r].customer], default |-> default]]
    BY <1>3 DEF FetchCustomer
  <2>2. vault[rprof[r].customer] \in SUBSET Cards
    BY <1>3 DEF FetchCustomer
  <2>3. got' \in [Readers -> Fetched]
    BY <2>1, <2>2
  <2> QED
    BY <1>3, <2>3 DEF FetchCustomer, omise, profile, adds, deletes
<1>4. CASE FetchFails(r)
  BY <1>4 DEF FetchFails, omise, profile, adds, deletes
<1>5. CASE UpsertCache(r)
  BY <1>5 DEF UpsertCache, omise, profile, adds, deletes
<1>6. CASE AutoSync(r)
  BY <1>6 DEF AutoSync, Syncs, omise, adds, deletes
<1>7. CASE KillRead(r)
  BY <1>7 DEF KillRead, omise, profile, adds, deletes
<1> QED
  BY <1>1, <1>2, <1>3, <1>4, <1>5, <1>6, <1>7 DEF Read

LEMMA EnvironmentType == ASSUME TypeInv, Expire \/ KycRegister PROVE TypeInv'
BY SentinelAssumption
   DEF Expire, KycRegister, TypeInv, TypeOK, Fresh, Stored, Named, omise, profile, adds, deletes, reads

LEMMA StutterType == ASSUME TypeInv, UNCHANGED vars PROVE TypeInv'
BY DEF TypeInv, TypeOK, Fresh, Stored, Named, vars, omise, profile, adds, deletes, reads

LEMMA NextType == TypeInv /\ [Next]_vars => TypeInv'
BY AddType, DeleteType, ReadType, EnvironmentType, StutterType DEF Next

LEMMA TypeInvariant == Spec => []TypeInv
BY InitType, NextType, PTL DEF Spec

\* The variables of SavedCards keep their types; above all, the profile never
\* names a customer that Omise does not have, except the email KYC puts there.
THEOREM TypeCorrect == Spec => []TypeOK
<1>1. TypeInv => TypeOK
  BY DEF TypeInv
<1> QED
  BY <1>1, TypeInvariant, PTL

-----------------------------------------------------------------------------
(* What the requests in flight may still do.  As long as nothing failed and *)
(* there is one customer object, the cards of the user are those attached   *)
(* to any customer; each view of them that will be written, by a reader or  *)
(* into the cache, agrees with them but for changes that are marked.        *)

Calm == faults = 0 /\ OneCustomer
Attached(c) == \E k \in created : c \in vault[k]

AddedInv == \A c \in Cards :
  /\ apc[c] \in {"store", "invalidate", "added"} => Attached(c) \/ dpc[c] \in {"cleanup", "deleted"}
  /\ apc[c] \in {"invalidate", "added"} => customer \in Cards
FetchedInv == \A r \in Readers : \A c \in Cards :
  /\ rpc[r] = "store" /\ c \notin torn => (c \in got[r].cards <=> Attached(c))
  /\ rpc[r] \in {"store", "sync"} /\ got[r].default = c => Attached(c) \/ c \in torn
CacheInv == Hit => \A c \in Cards : c \notin torn /\ ~Changing(c) => (c \in cache <=> Attached(c))
PreferenceInv == \A c \in Cards :
  preferred = c => Attached(c) \/ "preference" \in todo[c] \/ c \in torn

CardsInv == AddedInv /\ FetchedInv /\ CacheInv /\ PreferenceInv
Inv == TypeInv /\ (Calm => CardsInv)

LEMMA InitInv == Init => Inv
<1> SUFFICES ASSUME Init PROVE Inv
  OBVIOUS
<1>1. TypeInv
  BY InitType
<1>2. CardsInv
  BY SentinelAssumption DEF Init, CardsInv, AddedInv, FetchedInv, CacheInv, PreferenceInv, Hit
<1> QED
  BY <1>1, <1>2 DEF Inv

\* No step takes a fault back or makes two customers one.
LEMMA CalmBefore == ASSUME TypeInv, [Next]_vars, Calm' PROVE Calm
<1>1. faults' = 0 => faults = 0
  BY DEF TypeInv, TypeOK, Next, Add, Delete, Read, vars, Fault, DropCache, AddStart, AddCreate, AddAttach,
         AddRefused, AddStore, AddInvalidate, DeleteStart, DeleteAtVault, DeleteRefused,
         DeleteInvalidate, DeletePreference, DeleteDone, ReadProfile, ReadCache, FetchCustomer,
         FetchFails, UpsertCache, AutoSync, KillAdd, KillDelete, KillRead, Expire, KycRegister
<1>2. created \subseteq created'
  BY DEF Next, Add, Delete, Read, vars, omise, AddStart, AddCreate, AddAttach,
         AddRefused, AddStore, AddInvalidate, DeleteStart, DeleteAtVault, DeleteRefused,
         DeleteInvalidate, DeletePreference, DeleteDone, ReadProfile, ReadCache, FetchCustomer,
         FetchFails, UpsertCache, AutoSync, KillAdd, KillDelete, KillRead, Expire, KycRegister
<1> QED
  BY <1>1, <1>2 DEF Calm, OneCustomer

\* A step that changes card c at Omise, and what it leaves for its invalidation
\* to do: every reader and every preference that missed it is marked.
LEMMA ChangeAtVault ==
  ASSUME TypeInv, CardsInv, NEW c \in Cards,
         \A x \in Cards \ {c} : Attached(x)' <=> Attached(x),
         Changes(c), UNCHANGED <<profile, cache, reads>>,
         \A x \in Cards \ {c} : /\ apc'[x] = apc[x] /\ dpc'[x] = dpc[x] /\ todo'[x] = todo[x],
         Changing(c)',
         apc'[c] \in {"store", "invalidate", "added"} =>
            Attached(c)' \/ dpc'[c] \in {"cleanup", "deleted"},
         apc'[c] \in {"invalidate", "added"} => customer \in Cards,
         preferred = c => Attached(c)' \/ "preference" \in todo'[c] \/ c \in torn'
  PROVE  CardsInv'
<1>1. AddedInv'
  BY DEF CardsInv, AddedInv, profile
<1>2. torn' \in {torn, torn \union {c}}
  BY DEF Changes
<1>3. ASSUME NEW r \in Readers, rpc[r] \in {"store", "sync"} PROVE c \in torn'
  BY <1>3 DEF Changes, Unseen
<1>4. FetchedInv'
  BY <1>2, <1>3 DEF CardsInv, FetchedInv, reads
<1>5. CacheInv'
  BY <1>2 DEF CardsInv, CacheInv, Hit, Changing
<1>6. PreferenceInv'
  BY <1>2 DEF CardsInv, PreferenceInv, profile
<1> QED
  BY <1>1, <1>4, <1>5, <1>6 DEF CardsInv

LEMMA AddKeeps ==
  ASSUME TypeInv, CardsInv, Calm, Calm', NEW c \in Cards, Add(c) \/ KillAdd(c)
  PROVE  CardsInv'
<1> USE DEF Calm
<1>1. CASE AddStart(c)
  BY <1>1 DEF AddStart, CardsInv, AddedInv, FetchedInv, CacheInv, PreferenceInv, Attached, Hit, Changing,
              TypeInv, TypeOK, omise, profile, deletes, reads
<1>2. CASE AddCreate(c)
  <2>1. c \notin created
    BY <1>2 DEF AddCreate, TypeInv, Fresh
  <2>2. \A x \in Cards : Attached(x)' <=> Attached(x) \/ x = c
    BY <1>2, <2>1 DEF AddCreate, Attached, TypeInv, TypeOK, Customers
  <2>3. ~Fault
    BY DEF Fault, TypeInv, TypeOK
  <2>4. /\ apc'[c] = "store"
        /\ \A x \in Cards \ {c} : apc'[x] = apc[x] /\ dpc'[x] = dpc[x] /\ todo'[x] = todo[x]
    BY <1>2, <2>3 DEF AddCreate, deletes, TypeInv, TypeOK
  <2> QED
    BY <1>2, <2>2, <2>4, ChangeAtVault DEF AddCreate, Changing
<1>3. CASE AddAttach(c)
  <2>1. \A x \in Cards : Attached(x)' <=> Attached(x) \/ x = c
    BY <1>3 DEF AddAttach, Attached, TypeInv, TypeOK, Customers
  <2>2. ~Fault
    BY DEF Fault, TypeInv, TypeOK
  <2>3. /\ apc'[c] = "invalidate"
        /\ \A x \in Cards \ {c} : apc'[x] = apc[x] /\ dpc'[x] = dpc[x] /\ todo'[x] = todo[x]
    BY <1>3, <2>2 DEF AddAttach, deletes, TypeInv, TypeOK
  <2>4. customer \in Cards
    BY <1>3 DEF AddAttach, TypeInv, TypeOK, Named, Customers
  <2> QED
    BY <1>3, <2>1, <2>3, <2>4, ChangeAtVault DEF AddAttach, Changing
<1>4. CASE AddRefused(c)
  BY <1>4 DEF AddRefused, CardsInv, AddedInv, FetchedInv, CacheInv, PreferenceInv, Attached, Hit, Changing,
              TypeInv, TypeOK, omise, profile, deletes, reads
<1>5. CASE AddStore(c)
  <2>1. customer' = c
    BY <1>5 DEF AddStore, Fault, TypeInv, TypeOK
  <2> QED
    BY <1>5, <2>1 DEF AddStore, CardsInv, AddedInv, FetchedInv, CacheInv, PreferenceInv, Attached, Hit,
                      Changing, TypeInv, TypeOK, omise, deletes, reads
<1>6. CASE AddInvalidate(c)
  <2>1. cache' = None
    BY <1>6 DEF AddInvalidate, DropCache, Fault, TypeInv, TypeOK
  <2> QED
    BY <1>6, <2>1 DEF AddInvalidate, CardsInv, AddedInv, FetchedInv, CacheInv, PreferenceInv, Attached, Hit,
                      TypeInv, TypeOK, omise, profile, deletes, reads
<1>7. CASE KillAdd(c)
  BY <1>7 DEF KillAdd, Fault, TypeInv, TypeOK
<1> QED
  BY <1>1, <1>2, <1>3, <1>4, <1>5, <1>6, <1>7 DEF Add

LEMMA DeleteKeeps ==
  ASSUME TypeInv, CardsInv, Calm, Calm', NEW c \in Cards, Delete(c) \/ KillDelete(c)
  PROVE  CardsInv'
<1> USE DEF Calm
<1>0. ~Fault
  BY DEF Fault, TypeInv, TypeOK
<1>1. CASE DeleteStart(c)
  BY <1>1 DEF DeleteStart, CardsInv, AddedInv, FetchedInv, CacheInv, PreferenceInv, Attached, Hit, Changing,
              TypeInv, TypeOK, omise, profile, adds, reads
<1>2. CASE DeleteAtVault(c)
  <2>1. dprof[c].customer \in created
    BY <1>2 DEF DeleteAtVault, CardsOf
  <2>2. \A x \in Cards \ {c} : Attached(x)' <=> Attached(x)
    BY <1>2, <2>1 DEF DeleteAtVault, Attached, TypeInv, TypeOK, Customers
  <2>3. /\ dpc'[c] = "cleanup" /\ todo'[c] = Cleanup(c) /\ apc' = apc
        /\ \A x \in Cards \ {c} : dpc'[x] = dpc[x] /\ todo'[x] = todo[x]
    BY <1>0, <1>2 DEF DeleteAtVault, adds, TypeInv, TypeOK
  <2>4. Changing(c)'
    BY <2>3 DEF Changing, Cleanup
  <2>5. preferred = c => "preference" \in todo'[c] \/ c \in torn'
    BY <1>2, <2>3 DEF DeleteAtVault, Changes, Unseen, Cleanup
  <2>6. apc[c] \in {"invalidate", "added"} => customer \in Cards
    BY DEF CardsInv, AddedInv
  <2> QED
    BY <1>2, <2>2, <2>3, <2>4, <2>5, <2>6, ChangeAtVault DEF DeleteAtVault
<1>3. CASE DeleteRefused(c)
  BY <1>3 DEF DeleteRefused, CardsInv, AddedInv, FetchedInv, CacheInv, PreferenceInv, Attached, Hit, Changing,
              TypeInv, TypeOK, omise, profile, adds, reads
<1>4. CASE DeleteInvalidate(c)
  <2>1. cache' = None
    BY <1>0, <1>4 DEF DeleteInvalidate, DropCache
  <2> QED
    BY <1>4, <2>1 DEF DeleteInvalidate, CardsInv, AddedInv, FetchedInv, CacheInv, PreferenceInv, Attached, Hit,
                      TypeInv, TypeOK, omise, profile, adds, reads
<1>5. CASE DeletePreference(c)
  <2>1. preferred' = None
    BY <1>0, <1>5 DEF DeletePreference
  <2> QED
    BY <1>5, <2>1, SentinelAssumption
       DEF DeletePreference, CardsInv, AddedInv, FetchedInv, CacheInv, PreferenceInv, Attached, Hit, Changing,
           TypeInv, TypeOK, omise, adds, reads
<1>6. CASE DeleteDone(c)
  BY <1>6 DEF DeleteDone, CardsInv, AddedInv, FetchedInv, CacheInv, PreferenceInv, Attached, Hit, Changing,
              TypeInv, TypeOK, omise, profile, adds, reads
<1>7. CASE KillDelete(c)
  BY <1>0, <1>7 DEF KillDelete
<1> QED
  BY <1>1, <1>2, <1>3, <1>4, <1>5, <1>6, <1>7 DEF Delete

LEMMA ReadKeeps ==
  ASSUME TypeInv, CardsInv, Calm, Calm', NEW r \in Readers, Read(r) \/ KillRead(r)
  PROVE  CardsInv'
<1> USE DEF Calm
<1>0. ~Fault
  BY DEF Fault, TypeInv, TypeOK
<1>1. CASE ReadProfile(r)
  BY <1>1 DEF ReadProfile, CardsInv, AddedInv, FetchedInv, CacheInv, PreferenceInv, Attached, Hit, Changing,
              TypeInv, TypeOK, omise, profile, adds, deletes
<1>2. CASE ReadCache(r)
  BY <1>2 DEF ReadCache, Answer, CardsInv, AddedInv, FetchedInv, CacheInv, PreferenceInv, Attached, Hit,
              Changing, TypeInv, TypeOK, omise, profile, adds, deletes
<1>3. CASE FetchCustomer(r)
  <2>1. PICK default \in Cards \union {None} :
          /\ IF vault[rprof[r].customer] = {} THEN default = None
                                             ELSE default \in vault[rprof[r].customer]
          /\ got' = [got EXCEPT ![r] = [cards |-> vault[rprof[r].customer], default |-> default]]
    BY <1>3 DEF FetchCustomer
  <2>2. \A x \in Cards : x \in vault[rprof[r].customer] <=> Attached(x)
    BY <1>3 DEF FetchCustomer, Attached, OneCustomer
  <2>3. /\ got'[r].cards = vault[rprof[r].customer] /\ got'[r].default = default
        /\ \A s \in Readers \ {r} : got'[s] = got[s] /\ rpc'[s] = rpc[s]
    BY <1>3, <2>1 DEF FetchCustomer, TypeInv, TypeOK
  <2>4. \A x \in Cards : default = x => Attached(x)
    BY <2>1, <2>2, SentinelAssumption
  <2>5. FetchedInv'
    BY <1>3, <2>2, <2>3, <2>4 DEF FetchCustomer, CardsInv, FetchedInv, Attached, omise
  <2> QED
    BY <1>3, <2>5 DEF FetchCustomer, CardsInv, AddedInv, CacheInv, PreferenceInv, Attached, Hit, Changing,
                      omise, profile, adds, deletes
<1>4. CASE FetchFails(r)
  BY <1>4 DEF FetchFails, Answer, CardsInv, AddedInv, FetchedInv, CacheInv, PreferenceInv, Attached, Hit,
              Changing, TypeInv, TypeOK, omise, profile, adds, deletes
<1>5. CASE UpsertCache(r)
  <2>1. cache' = got[r].cards /\ rpc[r] = "store"
    BY <1>0, <1>5 DEF UpsertCache
  <2>2. CacheInv'
    BY <1>5, <2>1 DEF UpsertCache, CardsInv, FetchedInv, CacheInv, Attached, omise
  <2> QED
    BY <1>5, <2>2 DEF UpsertCache, CardsInv, AddedInv, FetchedInv, PreferenceInv, Attached,
                      TypeInv, TypeOK, omise, profile, adds, deletes
<1>6. CASE AutoSync(r)
  <2>1. preferred' \in {preferred, got[r].default} /\ rpc[r] = "sync"
    BY <1>0, <1>6 DEF AutoSync
  <2>2. PreferenceInv'
    BY <1>6, <2>1 DEF AutoSync, CardsInv, FetchedInv, PreferenceInv, Attached, omise, deletes
  <2> QED
    BY <1>6, <2>2 DEF AutoSync, Answer, CardsInv, AddedInv, FetchedInv, CacheInv, Attached, Hit, Changing,
                      TypeInv, TypeOK, omise, adds, deletes
<1>7. CASE KillRead(r)
  BY <1>0, <1>7 DEF KillRead
<1> QED
  BY <1>1, <1>2, <1>3, <1>4, <1>5, <1>6, <1>7 DEF Read

LEMMA EnvironmentKeeps == ASSUME TypeInv, CardsInv, Expire \/ KycRegister PROVE CardsInv'
BY SentinelAssumption
   DEF Expire, KycRegister, CardsInv, AddedInv, FetchedInv, CacheInv, PreferenceInv, Attached, Hit, Changing,
       TypeInv, TypeOK, omise, profile, adds, deletes, reads

LEMMA StutterKeeps == ASSUME CardsInv, UNCHANGED vars PROVE CardsInv'
BY DEF CardsInv, AddedInv, FetchedInv, CacheInv, PreferenceInv, Attached, Hit, Changing,
       vars, omise, profile, adds, deletes, reads

LEMMA NextInv == Inv /\ [Next]_vars => Inv'
<1> SUFFICES ASSUME Inv, [Next]_vars PROVE Inv'
  OBVIOUS
<1>1. TypeInv'
  BY NextType DEF Inv
<1>2. ASSUME Calm' PROVE CardsInv'
  <2>1. Calm /\ CardsInv
    BY <1>2, CalmBefore DEF Inv
  <2> QED
    BY <1>2, <2>1, AddKeeps, DeleteKeeps, ReadKeeps, EnvironmentKeeps, StutterKeeps DEF Inv, Next
<1> QED
  BY <1>1, <1>2 DEF Inv

LEMMA Invariant == Spec => []Inv
BY InitInv, NextInv, PTL DEF Spec

\* A card whose add-card succeeded is attached to the profile's customer until
\* it is deleted, unless two customers were created or something failed.
THEOREM AddedCardsAreListed == Spec => []AddedIsListed
<1>1. Inv => AddedIsListed
  BY SentinelAssumption
     DEF Inv, TypeInv, TypeOK, Customers, Calm, CardsInv, AddedInv, AddedIsListed, OneCustomer, Attached, CardsOf
<1> QED
  BY <1>1, Invariant, PTL

\* Without faults, what the cache would answer differs from the vault only in
\* cards about to be invalidated or changed under a reader that stored its view.
THEOREM CacheIsAccurate == Spec => []CacheAgrees
<1>1. Inv /\ created \subseteq {customer} => OneCustomer /\ \A c \in Cards : Attached(c) <=> c \in CardsOf(customer)
  BY DEF OneCustomer, Attached, CardsOf
<1>2. Inv => CacheAgrees
  BY <1>1 DEF Inv, Calm, CardsInv, CacheInv, CacheAgrees
<1> QED
  BY <1>2, Invariant, PTL

\* Without faults, the preferred card exists or its deletion will clear it, but
\* for a deletion under a reader that had seen no preference.
THEOREM PreferredCardExists == Spec => []PreferenceExists
<1>1. Inv /\ created \subseteq {customer} => OneCustomer /\ \A c \in Cards : Attached(c) <=> c \in CardsOf(customer)
  BY DEF OneCustomer, Attached, CardsOf
<1>2. Inv => PreferenceExists
  BY <1>1 DEF Inv, TypeInv, TypeOK, Calm, CardsInv, PreferenceInv, PreferenceExists
<1> QED
  BY <1>2, Invariant, PTL

=============================================================================
