----------------------------- MODULE HeapObjects -----------------------------
(***************************************************************************)
(* A field refers to an object or holds a plain machine word.              *)
(***************************************************************************)
Ref(i) == [kind |-> "ref", at |-> i]
Val(v) == [kind |-> "val", at |-> v]

Object(t, fields) == [type |-> t, fields |-> fields]

References(o) ==
  {o.fields[k].at : k \in {j \in DOMAIN o.fields : o.fields[j].kind = "ref"}}
=============================================================================
