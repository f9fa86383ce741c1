---------------------------- MODULE UbusRegistry ----------------------------
(***************************************************************************)
(* The tables of the ubus daemon and nothing else: the AVL trees `clients', *)
(* `objects', `path', `obj_types' and `patterns' and the subscription lists *)
(* (ubusd_obj.c, ubusd_event.c, ubusd_proto.c).  Every action is what one   *)
(* function does to the tables; what it sends is the subject of Ubusd, which *)
(* implements this module.                                                  *)
(*                                                                          *)
(* Ids are drawn from /dev/urandom until one is free (ubus_alloc_id), so an  *)
(* action picks any free id.  The two system objects have a NULL client and  *)
(* a fixed id below UBUS_SYSTEM_OBJECT_MAX; they are never freed and are     *)
(* outside ObjId.  Memory allocation does not fail.                          *)
(***************************************************************************)
EXTENDS Naturals, FiniteSets

CONSTANTS Client,    \* client ids
          ObjId,     \* object ids a client's object can get
          Path,      \* object paths
          TypeId,    \* object type ids
          Pattern,   \* event patterns
          MaxDup,    \* bound: subscriptions of one object to one target
          Null       \* a NULL pointer

ASSUME ObjIdAssumption == IsFiniteSet(ObjId)
ASSUME NullAssumption == Null \notin Client \cup ObjId \cup Path \cup TypeId
ASSUME MaxDupAssumption == MaxDup \in Nat \ {0}

VARIABLES clients,   \* the tree of connected clients
          objects,   \* the tree of objects: id -> struct ubus_object
          path,      \* the tree of published paths: path -> object id
          obj_types, \* the tree of object types: id -> refcount, 0 if absent
          subs,      \* <<subscriber, target>> -> number of subscriptions
          patterns   \* event sources: <<object, pattern>>

regVars == <<clients, objects, path, obj_types, subs, patterns>>

----------------------------------------------------------------------------
Object == [client: Client \cup {Null}, path: Path \cup {Null}, type: TypeId \cup {Null}]

\* An id that is not in the tree.
NoObject == [client |-> Null, path |-> Null, type |-> Null]

Live == {o \in ObjId : objects[o].client # Null}

Owned(c) == {o \in ObjId : objects[o].client = c}

Users(t) == {o \in ObjId : objects[o].type = t}

\* Taking a reference on an object type: ubus_get_obj_type on a known type,
\* the initial count of ubus_create_obj_type, and `if (type)' in
\* ubusd_create_object_internal.
RefType(types, t) == IF t = Null THEN types ELSE [types EXCEPT ![t] = @ + 1]

\* A type whose count drops to 0 leaves the tree.
ubus_unref_object_type(types, t) == IF t = Null THEN types ELSE [types EXCEPT ![t] = @ - 1]

\* Fault: subscriptions to the object stay.
FreeObjectsKeepsSubscribers(O) ==
    /\ objects' = [o \in ObjId |-> IF o \in O THEN NoObject ELSE objects[o]]
    /\ path' = [p \in Path |-> IF path[p] \in O THEN Null ELSE path[p]]
    /\ obj_types' = [t \in TypeId |-> obj_types[t] - Cardinality(Users(t) \cap O)]
    /\ subs' = [st \in ObjId \X ObjId |-> IF st[1] \in O THEN 0 ELSE subs[st]]
    /\ patterns' = {op \in patterns : op[1] \notin O}

\* ubusd_free_object for every object of the set O: subscriptions from and to
\* it, its event sources, its path, its id and its reference on its type.
FreeObjects(O) ==
    /\ objects' = [o \in ObjId |-> IF o \in O THEN NoObject ELSE objects[o]]
    /\ path' = [p \in Path |-> IF path[p] \in O THEN Null ELSE path[p]]
    /\ obj_types' = [t \in TypeId |-> obj_types[t] - Cardinality(Users(t) \cap O)]
    /\ subs' = [st \in ObjId \X ObjId |-> IF st[1] \in O \/ st[2] \in O THEN 0 ELSE subs[st]]
    /\ patterns' = {op \in patterns : op[1] \notin O}

----------------------------------------------------------------------------
Init ==
    /\ clients = {}
    /\ objects = [o \in ObjId |-> NoObject]
    /\ path = [p \in Path |-> Null]
    /\ obj_types = [t \in TypeId |-> 0]
    /\ subs = [st \in ObjId \X ObjId |-> 0]
    /\ patterns = {}

ubusd_proto_new_client(c) ==
    /\ c \notin clients
    /\ clients' = clients \cup {c}
    /\ UNCHANGED <<objects, path, obj_types, subs, patterns>>

ubusd_proto_free_client(c) ==
    /\ c \in clients
    /\ clients' = clients \ {c}
    /\ FreeObjects(Owned(c))

CreateWith(c, o, p, t, types) ==
    /\ c \in clients
    /\ o \notin Live
    /\ objects' = [objects EXCEPT ![o] = [client |-> c, path |-> p, type |-> t]]
    /\ path' = IF p = Null THEN path ELSE [path EXCEPT ![p] = o]
    /\ obj_types' = types
    /\ UNCHANGED <<clients, subs, patterns>>

\* Faults of ubusd_create_object: the path may be taken; the caller's reference
\* is not dropped.
CreateOverPath(c, o, p, t) == CreateWith(c, o, p, t, RefType(obj_types, t))
CreateLeaksRef(c, o, p, t) ==
    (p # Null => path[p] = Null) /\ CreateWith(c, o, p, t, RefType(RefType(obj_types, t), t))

\* The type is NULL (none asked for, an unknown id, a malformed signature), a
\* type of the tree, or one that the signature creates; the caller's reference
\* is dropped once the object holds its own.  A taken path fails the request
\* and leaves the tables as they were.
ubusd_create_object(c, o, p, t) ==
    /\ c \in clients
    /\ o \notin Live
    /\ p # Null => path[p] = Null
    /\ objects' = [objects EXCEPT ![o] = [client |-> c, path |-> p, type |-> t]]
    /\ path' = IF p = Null THEN path ELSE [path EXCEPT ![p] = o]
    /\ obj_types' = ubus_unref_object_type(RefType(RefType(obj_types, t), t), t)
    /\ UNCHANGED <<clients, subs, patterns>>

ubusd_free_object(o) ==
    /\ o \in Live
    /\ FreeObjects({o})
    /\ UNCHANGED clients

\* A client cannot subscribe to an object of its own; there is no check for a
\* subscription that already exists.
ubus_subscribe(s, t) ==
    /\ {s, t} \subseteq Live
    /\ objects[s].client # objects[t].client
    /\ subs' = [subs EXCEPT ![<<s, t>>] = @ + 1]
    /\ UNCHANGED <<clients, objects, path, obj_types, patterns>>

ubus_unsubscribe(s, t) ==
    /\ subs[<<s, t>>] > 0
    /\ subs' = [subs EXCEPT ![<<s, t>>] = @ - 1]
    /\ UNCHANGED <<clients, objects, path, obj_types, patterns>>

ubusd_alloc_event_pattern(o, pat) ==
    /\ o \in Live
    /\ patterns' = patterns \cup {<<o, pat>>}
    /\ UNCHANGED <<clients, objects, path, obj_types, subs>>

Next ==
    \/ \E c \in Client : ubusd_proto_new_client(c) \/ ubusd_proto_free_client(c)
    \/ \E c \in Client, o \in ObjId, p \in Path \cup {Null}, t \in TypeId \cup {Null} :
         ubusd_create_object(c, o, p, t)
    \/ \E o \in ObjId : ubusd_free_object(o)
    \/ \E s, t \in ObjId : subs[<<s, t>>] < MaxDup /\ ubus_subscribe(s, t)
    \/ \E s, t \in ObjId : ubus_unsubscribe(s, t)
    \/ \E o \in ObjId, pat \in Pattern : ubusd_alloc_event_pattern(o, pat)

Spec == Init /\ [][Next]_regVars

----------------------------------------------------------------------------
(* The tables hold ids and counts: a reference count never goes below zero. *)
TypeOK ==
    /\ clients \subseteq Client
    /\ objects \in [ObjId -> Object]
    /\ path \in [Path -> ObjId \cup {Null}]
    /\ obj_types \in [TypeId -> Nat]
    /\ subs \in [ObjId \X ObjId -> Nat]
    /\ patterns \subseteq ObjId \X Pattern

(* No object outlives its client: handle_client_disconnect frees every      *)
(* object before the client, and a freed id carries nothing over.           *)
ObjectsOwned ==
    \A o \in ObjId : \/ objects[o] = NoObject
                     \/ objects[o].client \in clients

(* The path tree names an object exactly when the object carries that path: *)
(* no path leads to a freed object and no two objects share a path, however *)
(* creation, a failed creation and removal follow each other.               *)
PathTreeExact ==
    \A p \in Path, o \in ObjId : path[p] = o <=> objects[o].path = p

(* The count of a type is the number of objects that use it, so it is freed *)
(* with its last user and never before (ubus_unref_object_type).            *)
TypeRefcountExact ==
    \A t \in TypeId : obj_types[t] = Cardinality(Users(t))

(* Both ends of a subscription are objects of the tree, of two different    *)
(* clients: ubus_notify_subscription and ubus_notify_unsubscribe, which     *)
(* follow obj->client, never follow a freed object.                         *)
NoDanglingSubscription ==
    \A s, t \in ObjId :
      subs[<<s, t>>] > 0 => /\ {s, t} \subseteq Live
                            /\ objects[s].client # objects[t].client

(* An event source belongs to an object of the tree, so ubusd_send_event    *)
(* never follows ev->obj to a freed object.                                 *)
NoDanglingPattern == \A op \in patterns : op[1] \in Live

RegInv ==
    /\ TypeOK
    /\ ObjectsOwned
    /\ PathTreeExact
    /\ TypeRefcountExact
    /\ NoDanglingSubscription
    /\ NoDanglingPattern
=============================================================================
