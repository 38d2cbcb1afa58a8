-------------------------- MODULE ServiceRegistry --------------------------
(***************************************************************************)
(* center/ServiceRegistry: the instances that are registered, when each    *)
(* expires, and one queue of changes (deltas) per subscriber.  Every       *)
(* operation holds mu_, so each is one step.  An instance is its id: the   *)
(* service name and the address belong to it.                              *)
(***************************************************************************)
EXTENDS Sequences, SequencesExt

CONSTANT Ids         \* instance ids; a subscriber is the id of an instance

VARIABLES
  registry,          \* the registered ids
  expirations,       \* where the expiry of each id lies
  delta_map          \* subscriber -> changes it has not fetched yet

registryvars == <<registry, expirations, delta_map>>

Delta == [op : {"UPSERT", "OFFLINE"}, inst : Ids]

RegistryInit == /\ registry = {}
                /\ expirations = [i \in Ids |-> "absent"]
                /\ delta_map = <<>>

\* The queues after the changes "op" of the given ids: nobody is told of itself.
push_delta_to_others(op, ids) ==
  [s \in DOMAIN delta_map |->
     LET changed == SetToSeq(ids \ {s})
     IN  delta_map[s] \o [n \in DOMAIN changed |-> [op |-> op, inst |-> changed[n]]]]

\* is_new is the caller's word for it: the registry does not look.
register_instance(i, is_new) ==
  /\ registry' = registry \cup {i}
  /\ expirations' = [expirations EXCEPT ![i] = "future"]
  /\ delta_map' = IF is_new THEN push_delta_to_others("UPSERT", {i}) ELSE delta_map

\* Takes the ids that are registered out and tells the others.
Withdraw(ids) == /\ registry' = registry \ ids
                 /\ expirations' = [i \in Ids |->
                                      IF i \in ids THEN "absent" ELSE expirations[i]]
                 /\ delta_map' = push_delta_to_others("OFFLINE", ids \cap registry)

deregister_instance(i) == Withdraw({i} \cap registry)

cleanup_expired == Withdraw({i \in Ids : expirations[i] = "past"})

\* A slot that exists is kept, with what it holds.
subscribe(s) ==
  /\ delta_map' = [t \in DOMAIN delta_map \cup {s} |->
                     IF t \in DOMAIN delta_map THEN delta_map[t] ELSE <<>>]
  /\ UNCHANGED <<registry, expirations>>

unsubscribe(s) == /\ delta_map' = [t \in DOMAIN delta_map \ {s} |-> delta_map[t]]
                  /\ UNCHANGED <<registry, expirations>>

\* What pop_deltas returns, and what it leaves.
Deltas(s) == IF s \in DOMAIN delta_map THEN delta_map[s] ELSE <<>>

pop_deltas(s) == /\ delta_map' = [t \in DOMAIN delta_map |->
                                    IF t = s THEN <<>> ELSE delta_map[t]]
                 /\ UNCHANGED <<registry, expirations>>

\* Time reaches the expiry of i.
Lapse(i) == /\ expirations[i] = "future"
            /\ expirations' = [expirations EXCEPT ![i] = "past"]
            /\ UNCHANGED <<registry, delta_map>>

\* The types of the three maps.
RegistryTypeOK == /\ registry \subseteq Ids
                  /\ expirations \in [Ids -> {"absent", "future", "past"}]
                  /\ DOMAIN delta_map \subseteq Ids
                  /\ \A s \in DOMAIN delta_map : delta_map[s] \in Seq(Delta)
=============================================================================
