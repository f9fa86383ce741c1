------------------------- MODULE UbusRegistryProofs -------------------------
(***************************************************************************)
(* RegInv is an inductive invariant of the tables of ubusd, for every set of *)
(* clients, ids, paths, types and patterns.                                 *)
(***************************************************************************)
EXTENDS UbusRegistry, FiniteSetTheorems, TLAPS

(* The reference ubusd_create_object takes, the one the object takes and    *)
(* the one it drops leave the count of the type one higher.                 *)
LEMMA CreateRefs ==
  ASSUME NEW types \in [TypeId -> Nat], NEW t \in TypeId
  PROVE  ubus_unref_object_type(RefType(RefType(types, t), t), t)
           = [types EXCEPT ![t] = @ + 1]
<1>1. t # Null
  BY NullAssumption
<1>2. RefType(types, t) = [types EXCEPT ![t] = @ + 1]
  BY <1>1 DEF RefType
<1>3. RefType(RefType(types, t), t) = [types EXCEPT ![t] = @ + 2]
  BY <1>1, <1>2 DEF RefType
<1> QED
  BY <1>1, <1>3 DEF ubus_unref_object_type

(* The objects of a type are finitely many, as the id space is.             *)
LEMMA UsersFinite ==
  ASSUME NEW t \in TypeId
  PROVE  IsFiniteSet(Users(t)) /\ Cardinality(Users(t)) \in Nat
<1>1. Users(t) \subseteq ObjId
  BY DEF Users
<1> QED
  BY <1>1, ObjIdAssumption, FS_Subset, FS_CardinalityType

(* What FreeObjects leaves of a consistent registry is consistent: used for *)
(* one object and for all the objects of a client that goes away.           *)
LEMMA FreeObjectsKeeps ==
  ASSUME RegInv, NEW O \in SUBSET ObjId, FreeObjects(O),
         clients' \subseteq clients,
         \A o \in ObjId \ O : objects[o] = NoObject \/ objects[o].client \in clients'
  PROVE  RegInv'
<1> USE DEF FreeObjects
<1> NoObject \in Object
  BY DEF NoObject, Object
<1>0. \A t \in TypeId :
        /\ Users(t)' = Users(t) \ O
        /\ Cardinality(Users(t) \ O) = Cardinality(Users(t)) - Cardinality(Users(t) \cap O)
        /\ Cardinality(Users(t) \ O) \in Nat
  <2> TAKE t \in TypeId
  <2>1. Users(t)' = Users(t) \ O
    BY NullAssumption DEF Users, NoObject
  <2>2. IsFiniteSet(Users(t)) /\ IsFiniteSet(O)
    BY UsersFinite, ObjIdAssumption, FS_Subset
  <2> QED
    BY <2>1, <2>2, FS_Difference, FS_CardinalityType
<1>1. TypeOK'
  <2>1. obj_types' \in [TypeId -> Nat]
    BY <1>0 DEF RegInv, TypeRefcountExact
  <2> QED
    BY <2>1 DEF RegInv, TypeOK
<1>2. ObjectsOwned'
  BY DEF ObjectsOwned, RegInv
<1>3. PathTreeExact'
  BY NullAssumption DEF RegInv, PathTreeExact, TypeOK, NoObject
<1>4. TypeRefcountExact'
  BY <1>0 DEF RegInv, TypeRefcountExact
<1>5. NoDanglingSubscription'
  <2> SUFFICES ASSUME NEW s \in ObjId, NEW t \in ObjId, subs'[<<s, t>>] > 0
               PROVE  /\ s \in Live' /\ t \in Live'
                      /\ objects'[s].client # objects'[t].client
    BY DEF NoDanglingSubscription
  <2>1. s \notin O /\ t \notin O /\ subs[<<s, t>>] > 0
    OBVIOUS
  <2> QED
    BY <2>1 DEF RegInv, NoDanglingSubscription, Live
<1>6. NoDanglingPattern'
  BY DEF RegInv, NoDanglingPattern, Live, TypeOK
<1> QED
  BY <1>1, <1>2, <1>3, <1>4, <1>5, <1>6 DEF RegInv

(* A new object enters the trees with the path and the type it was given.   *)
LEMMA CreateKeeps ==
  ASSUME RegInv, NEW c \in Client, NEW o \in ObjId,
         NEW p \in Path \cup {Null}, NEW t \in TypeId \cup {Null},
         ubusd_create_object(c, o, p, t)
  PROVE  RegInv'
<1> USE DEF ubusd_create_object, RegInv
<1> DEFINE new == [client |-> c, path |-> p, type |-> t]
<1>0. /\ new \in Object /\ new.client = c /\ new.path = p /\ new.type = t
      /\ objects' = [objects EXCEPT ![o] = new]
      /\ objects'[o] = new
      /\ \A x \in ObjId \ {o} : objects'[x] = objects[x]
      /\ objects[o] = NoObject
      /\ c # Null
  BY NullAssumption DEF Object, TypeOK, Live, ObjectsOwned
<1>c. /\ obj_types' \in [TypeId -> Nat]
      /\ \A u \in TypeId : obj_types'[u] = IF u = t THEN obj_types[u] + 1 ELSE obj_types[u]
  <2>1. CASE t = Null
    BY <2>1, NullAssumption DEF TypeOK, ubus_unref_object_type, RefType
  <2>2. CASE t \in TypeId
    <3>1. obj_types' = [obj_types EXCEPT ![t] = @ + 1]
      BY <2>2, CreateRefs DEF TypeOK
    <3> QED
      BY <2>2, <3>1 DEF TypeOK
  <2> QED
    BY <2>1, <2>2
<1>1. TypeOK'
  BY <1>0, <1>c DEF TypeOK
<1>2. ObjectsOwned'
  BY <1>0 DEF ObjectsOwned
<1>3. PathTreeExact'
  <2> SUFFICES ASSUME NEW q \in Path, NEW x \in ObjId
               PROVE  path'[q] = x <=> objects'[x].path = q
    BY DEF PathTreeExact
  <2>1. q # Null /\ x # Null
    BY NullAssumption
  <2>2. CASE q = p
    <3>1. path'[q] = o /\ path[q] = Null
      BY <2>1, <2>2 DEF TypeOK
    <3> QED
      BY <2>1, <2>2, <3>1, <1>0 DEF PathTreeExact
  <2>3. CASE q # p
    <3>1. path'[q] = path[q]
      BY <2>3 DEF TypeOK
    <3> QED
      BY <2>1, <2>3, <3>1, <1>0 DEF PathTreeExact, NoObject
  <2> QED
    BY <2>2, <2>3
<1>4. TypeRefcountExact'
  <2> SUFFICES ASSUME NEW u \in TypeId
               PROVE  obj_types'[u] = Cardinality(Users(u))'
    BY DEF TypeRefcountExact
  <2>1. o \notin Users(u)
    BY <1>0, NullAssumption DEF Users, NoObject
  <2>2. CASE u = t
    <3>1. Users(u)' = Users(u) \cup {o}
      BY <1>0, <2>2 DEF Users
    <3>2. Cardinality(Users(u) \cup {o}) = Cardinality(Users(u)) + 1
      BY <2>1, UsersFinite, FS_AddElement
    <3> QED
      BY <3>1, <3>2, <2>2, <1>c DEF TypeRefcountExact
  <2>3. CASE u # t
    <3>1. Users(u)' = Users(u)
      BY <1>0, <2>1, <2>3 DEF Users
    <3> QED
      BY <3>1, <2>3, <1>c DEF TypeRefcountExact
  <2> QED
    BY <2>2, <2>3
<1>5. NoDanglingSubscription' /\ NoDanglingPattern'
  <2>1. \A x \in Live : x # o /\ x \in Live' /\ objects'[x] = objects[x]
    BY <1>0 DEF Live
  <2> QED
    BY <2>1 DEF NoDanglingSubscription, NoDanglingPattern
<1> QED
  BY <1>1, <1>2, <1>3, <1>4, <1>5

(* Every function that touches the tables keeps them consistent.            *)
LEMMA NextKeeps ==
  ASSUME RegInv, [Next]_regVars
  PROVE  RegInv'
<1>1. ASSUME NEW c \in Client, ubusd_proto_new_client(c) PROVE RegInv'
  BY <1>1 DEF ubusd_proto_new_client, RegInv, TypeOK, ObjectsOwned, PathTreeExact,
     TypeRefcountExact, Users, NoDanglingSubscription, NoDanglingPattern, Live
<1>2. ASSUME NEW c \in Client, ubusd_proto_free_client(c) PROVE RegInv'
  <2>1. Owned(c) \in SUBSET ObjId
    BY DEF Owned
  <2>2. \A o \in ObjId \ Owned(c) : objects[o] = NoObject \/ objects[o].client \in clients'
    BY <1>2 DEF ubusd_proto_free_client, Owned, RegInv, ObjectsOwned
  <2> QED
    BY <1>2, <2>1, <2>2, FreeObjectsKeeps DEF ubusd_proto_free_client
<1>3. ASSUME NEW c \in Client, NEW o \in ObjId, NEW p \in Path \cup {Null},
             NEW t \in TypeId \cup {Null}, ubusd_create_object(c, o, p, t)
      PROVE  RegInv'
  BY <1>3, CreateKeeps
<1>4. ASSUME NEW o \in ObjId, ubusd_free_object(o) PROVE RegInv'
  <2>1. {o} \in SUBSET ObjId
    OBVIOUS
  <2>2. clients' = clients
    BY <1>4 DEF ubusd_free_object
  <2>3. \A x \in ObjId \ {o} : objects[x] = NoObject \/ objects[x].client \in clients'
    BY <2>2 DEF RegInv, ObjectsOwned
  <2>4. FreeObjects({o})
    BY <1>4 DEF ubusd_free_object
  <2> QED
    BY <2>1, <2>2, <2>3, <2>4, FreeObjectsKeeps
<1>5. ASSUME NEW s \in ObjId, NEW t \in ObjId, ubus_subscribe(s, t) PROVE RegInv'
  <2>1. TypeOK'
    BY <1>5 DEF ubus_subscribe, RegInv, TypeOK
  <2>2. NoDanglingSubscription'
    BY <1>5 DEF ubus_subscribe, RegInv, TypeOK, NoDanglingSubscription, Live
  <2> QED
    BY <1>5, <2>1, <2>2 DEF ubus_subscribe, RegInv, ObjectsOwned, PathTreeExact,
       TypeRefcountExact, Users, NoDanglingPattern, Live
<1>6. ASSUME NEW s \in ObjId, NEW t \in ObjId, ubus_unsubscribe(s, t) PROVE RegInv'
  <2>1. TypeOK'
    BY <1>6 DEF ubus_unsubscribe, RegInv, TypeOK
  <2>2. NoDanglingSubscription'
    BY <1>6 DEF ubus_unsubscribe, RegInv, TypeOK, NoDanglingSubscription, Live
  <2> QED
    BY <1>6, <2>1, <2>2 DEF ubus_unsubscribe, RegInv, ObjectsOwned, PathTreeExact,
       TypeRefcountExact, Users, NoDanglingPattern, Live
<1>7. ASSUME NEW o \in ObjId, NEW pat \in Pattern, ubusd_alloc_event_pattern(o, pat)
      PROVE  RegInv'
  BY <1>7 DEF ubusd_alloc_event_pattern, RegInv, TypeOK, ObjectsOwned, PathTreeExact,
     TypeRefcountExact, Users, NoDanglingSubscription, NoDanglingPattern, Live
<1>8. CASE UNCHANGED regVars
  BY <1>8 DEF regVars, RegInv, TypeOK, ObjectsOwned, PathTreeExact,
     TypeRefcountExact, Users, NoDanglingSubscription, NoDanglingPattern, Live
<1> QED
  BY <1>1, <1>2, <1>3, <1>4, <1>5, <1>6, <1>7, <1>8 DEF Next

(* The tables of the daemon are consistent in every reachable state.        *)
THEOREM RegistryConsistent == Spec => []RegInv
<1>1. Init => RegInv
  <2> SUFFICES ASSUME Init PROVE RegInv
    OBVIOUS
  <2>1. \A t \in TypeId : Users(t) = {}
    BY NullAssumption DEF Init, Users, NoObject
  <2>2. TypeRefcountExact
    BY <2>1, FS_EmptySet DEF Init, TypeRefcountExact
  <2>3. PathTreeExact
    BY NullAssumption DEF Init, PathTreeExact, NoObject
  <2> QED
    BY <2>2, <2>3 DEF Init, RegInv, TypeOK, Object, NoObject, ObjectsOwned,
       NoDanglingSubscription, NoDanglingPattern
<1>2. RegInv /\ [Next]_regVars => RegInv'
  BY NextKeeps
<1> QED
  BY <1>1, <1>2, PTL DEF Spec

(* No subscription, and so no notification, involves a freed object or a    *)
(* client that is gone.                                                     *)
THEOREM SubscriptionsSafe == Spec => []NoDanglingSubscription
BY RegistryConsistent, PTL DEF RegInv

(* A type lives exactly as long as the objects that use it.                 *)
THEOREM TypeRefcountSafe == Spec => []TypeRefcountExact
BY RegistryConsistent, PTL DEF RegInv

(* No two objects share a path and no path leads to a freed object.         *)
THEOREM PathTreeSafe == Spec => []PathTreeExact
BY RegistryConsistent, PTL DEF RegInv
=============================================================================
