------------------------- MODULE ArtifactCache_proofs -------------------------
(***************************************************************************)
(* Proofs about ArtifactCache for any clients, projects, types and hashes. *)
(***************************************************************************)
EXTENDS ArtifactCache, TLAPS

(* The variables range over their types. *)
THEOREM TypeCorrect == Spec => []TypeOK
<1>1. Init => TypeOK
  BY DEF Init, TypeOK
<1>2. TypeOK /\ [Next]_vars => TypeOK'
  <2> SUFFICES ASSUME TypeOK, [Next]_vars
               PROVE  TypeOK'
    OBVIOUS
  <2> USE DEF TypeOK
  <2>1. ASSUME NEW c \in Clients, NEW k \in Keys, PutData(c, k)
        PROVE  TypeOK'
    BY <2>1 DEF PutData, Begin
  <2>2. ASSUME NEW c \in Clients, PutMetadata(c)
        PROVE  TypeOK'
    BY <2>2 DEF PutMetadata, Return
  <2>3. ASSUME NEW c \in Clients, NEW k \in Keys, DeleteMetadata(c, k)
        PROVE  TypeOK'
    BY <2>3 DEF DeleteMetadata, Begin
  <2>4. ASSUME NEW c \in Clients, DeleteData(c)
        PROVE  TypeOK'
    BY <2>4 DEF DeleteData, Return
  <2>5. ASSUME NEW c \in Clients, NEW p \in Projects, DeleteProjectData(c, p)
        PROVE  TypeOK'
    BY <2>5 DEF DeleteProjectData, Begin
  <2>6. ASSUME NEW c \in Clients, DropProjectMetadata(c)
        PROVE  TypeOK'
    BY <2>6 DEF DropProjectMetadata, Return, Idle
  <2>7. ASSUME NEW k \in Keys, Expire(k)
        PROVE  TypeOK'
    BY <2>7 DEF Expire
  <2>8. ASSUME NEW c \in Clients, NEW k \in Keys, LookUpMetadata(c, k)
        PROVE  TypeOK'
    <3>1. During({"delete"}, k) \in BOOLEAN
      BY DEF During
    <3>2. QED
      BY <2>8, <3>1 DEF LookUpMetadata, Begin
  <2>9. ASSUME NEW c \in Clients, LookUpData(c)
        PROVE  TypeOK'
    BY <2>9 DEF LookUpData, Return
  <2>10. CASE UNCHANGED vars
    BY <2>10 DEF vars
  <2>11. QED
    BY <2>1, <2>2, <2>3, <2>4, <2>5, <2>6, <2>7, <2>8, <2>9, <2>10 DEF Next
<1>3. QED
  BY <1>1, <1>2, PTL DEF Spec

-----------------------------------------------------------------------------
(* What a step does to the calls under way: a call that begins makes one    *)
(* more, one that returns one less, at its own key only.                    *)
LEMMA CallBegins ==
  ASSUME TypeOK, NEW c \in Clients, NEW what, Begin(c, what), NEW ops, "idle" \notin ops, NEW k
  PROVE  During(ops, k)' <=> During(ops, k) \/ (what.op \in ops /\ what.key = k)
<1>1. call[c].op \notin ops
  BY DEF Begin, Idle
<1>2. call'[c] = what /\ \A d \in Clients : d # c => call'[d] = call[d]
  BY DEF Begin, TypeOK
<1>3. QED
  BY <1>1, <1>2 DEF During

LEMMA CallReturns ==
  ASSUME TypeOK, NEW c \in Clients, Return(c), NEW ops, "idle" \notin ops, NEW k
  PROVE  /\ During(ops, k)' => During(ops, k)
         /\ During(ops, k) => During(ops, k)' \/ (call[c].op \in ops /\ call[c].key = k)
<1>1. call'[c].op \notin ops
  BY DEF Return, Idle, TypeOK
<1>2. \A d \in Clients : d # c => call'[d] = call[d]
  BY DEF Return, TypeOK
<1>3. QED
  BY <1>1, <1>2 DEF During

-----------------------------------------------------------------------------
(* The invariants, of one key; and that the data of a put under way has not *)
(* outlived its time, since it is the artifact before that expires.         *)
MetadataOf(k) ==
  k \in storage /\ metadata[k] = None => During({"put", "delete"}, k) \/ k.project_id \in invalidated

ExpiredOf(k) ==
  k \in aged /\ metadata[k] # "expired" => During({"delete"}, k) \/ k.project_id \in invalidated

RefusedOf(k) == k \in storage \ aged /\ metadata[k] = "expired" => During({"put"}, k)

FreshOf(k) == k \in aged => ~During({"put"}, k)

CacheInv == \A k \in Keys : MetadataOf(k) /\ ExpiredOf(k) /\ RefusedOf(k) /\ FreshOf(k)

(* Every step keeps them. *)
LEMMA CacheInvInductive == TypeOK /\ CacheInv /\ [Next]_vars => CacheInv'
<1> SUFFICES ASSUME TypeOK, CacheInv, [Next]_vars, NEW k \in Keys
             PROVE  (MetadataOf(k) /\ ExpiredOf(k) /\ RefusedOf(k) /\ FreshOf(k))'
  BY DEF CacheInv
<1> DEFINE Inv == MetadataOf(k) /\ ExpiredOf(k) /\ RefusedOf(k) /\ FreshOf(k)
<1>0. Inv
  BY DEF CacheInv
<1> USE ArtifactCacheAssumption DEF MetadataOf, ExpiredOf, RefusedOf, FreshOf
<1>1. ASSUME NEW c \in Clients, NEW l \in Keys, PutData(c, l)
      PROVE  Inv'
  <2>1. /\ During({"put"}, k)' <=> During({"put"}, k) \/ l = k
        /\ During({"delete"}, k)' <=> During({"delete"}, k)
        /\ During({"put", "delete"}, k)' <=> During({"put", "delete"}, k) \/ l = k
    BY <1>1, CallBegins DEF PutData
  <2>2. QED
    BY <1>0, <1>1, <2>1 DEF PutData
<1>2. ASSUME NEW c \in Clients, PutMetadata(c)
      PROVE  Inv'
  <2>1. /\ During({"put"}, k)' => During({"put"}, k)
        /\ During({"put"}, k) => During({"put"}, k)' \/ call[c].key = k
        /\ During({"delete"}, k) <=> During({"delete"}, k)'
        /\ During({"put", "delete"}, k) => During({"put", "delete"}, k)' \/ call[c].key = k
    BY <1>2, CallReturns DEF PutMetadata
  <2>2. call[c].key = k => During({"put"}, k) /\ metadata'[k] = "valid"
    BY <1>2 DEF PutMetadata, During, TypeOK
  <2>3. call[c].key # k => metadata'[k] = metadata[k]
    BY <1>2 DEF PutMetadata, TypeOK
  <2>4. QED
    BY <1>0, <1>2, <2>1, <2>2, <2>3 DEF PutMetadata
<1>3. ASSUME NEW c \in Clients, NEW l \in Keys, DeleteMetadata(c, l)
      PROVE  Inv'
  <2>1. /\ During({"put"}, k)' <=> During({"put"}, k)
        /\ During({"delete"}, k)' <=> During({"delete"}, k) \/ l = k
        /\ During({"put", "delete"}, k)' <=> During({"put", "delete"}, k) \/ l = k
    BY <1>3, CallBegins DEF DeleteMetadata
  <2>2. metadata'[k] = IF l = k THEN None ELSE metadata[k]
    BY <1>3 DEF DeleteMetadata, TypeOK
  <2>3. QED
    BY <1>0, <1>3, <2>1, <2>2 DEF DeleteMetadata
<1>4. ASSUME NEW c \in Clients, DeleteData(c)
      PROVE  Inv'
  <2>1. /\ During({"put"}, k) <=> During({"put"}, k)'
        /\ During({"delete"}, k) => During({"delete"}, k)' \/ call[c].key = k
        /\ During({"put", "delete"}, k) => During({"put", "delete"}, k)' \/ call[c].key = k
    BY <1>4, CallReturns DEF DeleteData
  <2>2. QED
    BY <1>0, <1>4, <2>1 DEF DeleteData, TypeOK
<1>5. ASSUME NEW c \in Clients, NEW p \in Projects, DeleteProjectData(c, p)
      PROVE  Inv'
  <2> DEFINE what == [op |-> "invalidate", project |-> p]
  <2>0. Begin(c, what) /\ what.op = "invalidate"
    BY <1>5 DEF DeleteProjectData
  <2> HIDE DEF what
  <2>1. /\ During({"put"}, k) <=> During({"put"}, k)'
        /\ During({"delete"}, k) <=> During({"delete"}, k)'
        /\ During({"put", "delete"}, k) <=> During({"put", "delete"}, k)'
    BY <2>0, CallBegins
  <2>2. QED
    BY <1>0, <1>5, <2>1 DEF DeleteProjectData
<1>6. ASSUME NEW c \in Clients, DropProjectMetadata(c)
      PROVE  Inv'
  <2>1. /\ During({"put"}, k) <=> During({"put"}, k)'
        /\ During({"delete"}, k) <=> During({"delete"}, k)'
        /\ During({"put", "delete"}, k) <=> During({"put", "delete"}, k)'
    BY <1>6, CallReturns DEF DropProjectMetadata
  <2>2. k.project_id \in invalidated' \/ metadata'[k] = metadata[k]
    BY <1>6 DEF DropProjectMetadata
  <2>3. k.project_id \in invalidated' => metadata'[k] = None \/ metadata'[k] = metadata[k]
    BY <1>6 DEF DropProjectMetadata
  <2>4. QED
    BY <1>0, <1>6, <2>1, <2>2, <2>3 DEF DropProjectMetadata
<1>7. ASSUME NEW l \in Keys, Expire(l)
      PROVE  Inv'
  <2>1. During({"put"}, k)' = During({"put"}, k) /\ During({"delete"}, k)' = During({"delete"}, k)
        /\ During({"put", "delete"}, k)' = During({"put", "delete"}, k)
    BY <1>7 DEF Expire, During
  <2>2. metadata'[k] = IF l = k THEN "expired" ELSE metadata[k]
    BY <1>7 DEF Expire, TypeOK
  <2>3. QED
    BY <1>0, <1>7, <2>1, <2>2 DEF Expire
<1>8. ASSUME NEW c \in Clients, NEW l \in Keys, LookUpMetadata(c, l)
      PROVE  Inv'
  <2> DEFINE what == [op |-> "get", key |-> l, aged |-> l \in aged,
                      deleting |-> During({"delete"}, l), late |-> l.project_id \in invalidated]
  <2>0. Begin(c, what) /\ what.op = "get"
    BY <1>8 DEF LookUpMetadata
  <2> HIDE DEF what
  <2>1. /\ During({"put"}, k)' <=> During({"put"}, k)
        /\ During({"delete"}, k)' <=> During({"delete"}, k)
        /\ During({"put", "delete"}, k)' <=> During({"put", "delete"}, k)
    BY <2>0, CallBegins
  <2>2. QED
    BY <1>0, <1>8, <2>1 DEF LookUpMetadata
<1>9. ASSUME NEW c \in Clients, LookUpData(c)
      PROVE  Inv'
  <2>1. /\ During({"put"}, k)' <=> During({"put"}, k)
        /\ During({"delete"}, k)' <=> During({"delete"}, k)
        /\ During({"put", "delete"}, k)' <=> During({"put", "delete"}, k)
    BY <1>9, CallReturns DEF LookUpData
  <2>2. QED
    BY <1>0, <1>9, <2>1 DEF LookUpData
<1>10. CASE UNCHANGED vars
  BY <1>0, <1>10 DEF vars, During
<1>11. QED
  BY <1>1, <1>2, <1>3, <1>4, <1>5, <1>6, <1>7, <1>8, <1>9, <1>10 DEF Next

LEMMA CacheInvCorrect == Spec => []CacheInv
<1>1. Init => CacheInv
  BY DEF Init, CacheInv, MetadataOf, ExpiredOf, RefusedOf, FreshOf
<1>2. QED
  BY <1>1, CacheInvInductive, TypeCorrect, PTL DEF Spec

(* No data stays without the metadata that would expire it, however many    *)
(* clients put, delete and invalidate at once.                              *)
THEOREM DataHasMetadataCorrect == Spec => []DataHasMetadata
<1>1. TypeOK /\ CacheInv => DataHasMetadata
  BY DEF TypeOK, CacheInv, MetadataOf, DataHasMetadata
<1>2. QED
  BY <1>1, TypeCorrect, CacheInvCorrect, PTL

(* What a get found when it looked the metadata up. *)
FoundBy(c) == call[c].op = "get" /\ call[c].aged => call[c].deleting \/ call[c].late

GetInv == \A c \in Clients : FoundBy(c)

(* Only a look-up makes a get, and what it finds is as CacheInv says. *)
LEMMA GetInvInductive == TypeOK /\ CacheInv /\ GetInv /\ [Next]_vars => GetInv'
<1> SUFFICES ASSUME TypeOK, CacheInv, GetInv, [Next]_vars, NEW c \in Clients
             PROVE  FoundBy(c)'
  BY DEF GetInv
<1> USE DEF GetInv, FoundBy
<1>1. ASSUME NEW d \in Clients, NEW k \in Keys, LookUpMetadata(d, k)
      PROVE  FoundBy(c)'
  <2>1. k \in aged => During({"delete"}, k) \/ k.project_id \in invalidated
    BY <1>1 DEF CacheInv, ExpiredOf, LookUpMetadata
  <2>2. CASE c = d
    <3>1. call'[c] = [op |-> "get", key |-> k, aged |-> k \in aged,
                      deleting |-> During({"delete"}, k), late |-> k.project_id \in invalidated]
      BY <1>1, <2>2 DEF LookUpMetadata, Begin, TypeOK
    <3>2. /\ call'[c].aged = (k \in aged)
          /\ call'[c].deleting = During({"delete"}, k)
          /\ call'[c].late = (k.project_id \in invalidated)
      BY <3>1
    <3>3. call'[c].aged => call'[c].deleting \/ call'[c].late
      BY <2>1, <3>2
    <3>4. QED
      BY <3>3
  <2>3. CASE c # d
    BY <1>1, <2>3 DEF LookUpMetadata, Begin, TypeOK
  <2>4. QED
    BY <2>2, <2>3
<1>2. ASSUME NEW d \in Clients, NEW what, Begin(d, what), what.op # "get"
      PROVE  FoundBy(c)'
  BY <1>2 DEF Begin, TypeOK
<1>3. ASSUME NEW d \in Clients, Return(d)
      PROVE  FoundBy(c)'
  BY <1>3 DEF Return, Idle, TypeOK
<1>4. CASE UNCHANGED call
  BY <1>4
<1>5. QED
  BY <1>1, <1>2, <1>3, <1>4
     DEF Next, PutData, PutMetadata, DeleteMetadata, DeleteData, DeleteProjectData,
         DropProjectMetadata, LookUpData, Expire, vars

(* What a get goes on to had outlived its time only with an excuse, and     *)
(* what is refused as expired is so.                                        *)
THEOREM ExpiryIsOfTheDataCorrect == Spec => []ExpiryIsOfTheData
<1>1. Init => GetInv
  BY DEF Init, Idle, GetInv, FoundBy
<1>2. TypeOK /\ CacheInv /\ GetInv => ExpiryIsOfTheData
  BY DEF TypeOK, CacheInv, RefusedOf, GetInv, FoundBy, ExpiryIsOfTheData
<1>3. QED
  BY <1>1, <1>2, GetInvInductive, TypeCorrect, CacheInvCorrect, PTL DEF Spec
=============================================================================
