------------------------------ MODULE TxEvents ------------------------------
(***************************************************************************)
(* Does a delivered transaction prove the update this tick intended?       *)
(* confirm.rs reads the wasm attributes an LCD reports of a transaction: a *)
(* flat list in which the attributes of several contracts follow each      *)
(* other, _contract_address before those of each.                          *)
(***************************************************************************)
EXTENDS Naturals, SequencesExt

CONSTANTS
  OracleAddr,   \* ORACLE_CONTRACT
  OtherAddr     \* another contract that emits the same attributes

(* One execution as a contract reports it, here with every rate it names.    *)
Execution == [contract : {OracleAddr, OtherAddr}, action : STRING, rates : Seq(Nat)]

Attribute(key, value) == [key |-> key, value |-> value]

(* What contracts report of an execution: on wasmd, one flat list for all.   *)
AttributesOf(execution) ==
  <<Attribute("_contract_address", execution.contract), Attribute("action", execution.action)>>
    \o [i \in DOMAIN execution.rates |-> Attribute("rate", execution.rates[i])]

Reported(executions) == FlattenSeq([i \in DOMAIN executions |-> AttributesOf(executions[i])])

(* wasm_attr_groups: the positions at which a contract's group starts, and   *)
(* the attributes of a group, up to the next one.                            *)
GroupStarts(attributes) ==
  {i \in DOMAIN attributes : attributes[i].key = "_contract_address"}

GroupAt_NeverEnds(attributes, start) == {attributes[i] : i \in start..Len(attributes)}

GroupAt(attributes, start) ==
  {attributes[i] : i \in {k \in start..Len(attributes) :
                            \A j \in (start + 1)..k : j \notin GroupStarts(attributes)}}

ValuesOf(key, group) == {a.value : a \in {b \in group : b.key = key}}

OurGroups(attributes) ==
  {GroupAt(attributes, i) :
     i \in {k \in GroupStarts(attributes) : attributes[k].value = OracleAddr}}

(* oracle_tx_events_match_update: proof is a group of our contract with an   *)
(* update_rate and no other rate than the proposed one.  Events that prove   *)
(* something else are an error; only their absence leaves the answer open.   *)
EventsMatch(attributes, proposed) ==
  IF GroupStarts(attributes) = {} THEN "absent"
  ELSE IF \E group \in OurGroups(attributes) :
            /\ "update_rate" \in ValuesOf("action", group)
            /\ ValuesOf("rate", group) = {proposed}
         THEN "matched"
  ELSE "error"
=============================================================================
