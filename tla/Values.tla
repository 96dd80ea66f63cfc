------------------------------- MODULE Values -------------------------------
(***************************************************************************)
(* The value union of the telemetry model and its keyed containers         *)
(* (crates/telemetry-model/src/values.rs).  A value carries its kind and   *)
(* one payload field; a double is its bit pattern, so that NaN equals      *)
(* itself and the two zeros differ.  Strings and byte strings are tokens   *)
(* with a length.                                                          *)
(***************************************************************************)
EXTENDS Integers, Sequences, FiniteSets

CONSTANTS
    None,       \* an absent field
    LongTexts,  \* the tokens longer than one byte
    LongBytes   \* their length

ASSUME ValuesAssumption == LongBytes \in Nat /\ LongBytes > 1

(* The byte length of a string token.                                      *)
Bytes(text) ==
    IF text = "" THEN 0 ELSE IF text \in LongTexts THEN LongBytes ELSE 1

-----------------------------------------------------------------------------
(* A fallible construction: what it built, or why it refused.              *)
Ok(built) == [ok |-> TRUE, built |-> built]
Err(why) == [ok |-> FALSE, why |-> why]

(* The `?` of a series of constructions: the first refusal wins.           *)
FirstErr(results) ==
    results[CHOOSE i \in DOMAIN results :
                /\ ~results[i].ok
                /\ \A j \in 1 .. i - 1 : results[j].ok]

AllOk(results) == \A i \in DOMAIN results : results[i].ok
Built(results) == [i \in DOMAIN results |-> results[i].built]
Collect(results) == IF AllOk(results) THEN Ok(Built(results)) ELSE FirstErr(results)
AndThen(result, Rest(_)) == IF result.ok THEN Rest(result.built) ELSE result
Try(results, Whole(_)) == AndThen(Collect(results), LAMBDA parts : Ok(Whole(parts)))

-----------------------------------------------------------------------------
ValueKinds == {"String", "Bool", "Int", "Double", "Bytes", "Array", "KvList"}
Containers == {"Array", "KvList"}

(* A double is preserved and compared by its bits, with no normalisation.  *)
Double(bits) == [kind |-> "Double", bits |-> bits]

(* An array is homogeneous in value kind; the empty array has no kind.     *)
HomogeneousArray(items) ==
    LET broken == {i \in 2 .. Len(items) : items[i].kind # items[1].kind}
    IN  IF broken = {} THEN Ok([kind |-> "Array", items |-> items])
        ELSE LET at == CHOOSE i \in broken : \A j \in broken : i <= j
             IN  Err([why |-> "MixedKindArray", first |-> items[1].kind,
                      index |-> at - 1, found |-> items[at].kind])

(* The first repetition of a key, in the order the pairs were sent.        *)
Repeated(pairs) ==
    {i \in DOMAIN pairs : \E j \in 1 .. i - 1 : pairs[j].key = pairs[i].key}

DuplicateKey(pairs) ==
    LET at == CHOOSE i \in Repeated(pairs) : \A j \in Repeated(pairs) : i <= j
    IN  Err([why |-> "DuplicateKey", key |-> pairs[at].key])

(* A key-value list keeps the emitter's order, which is part of its        *)
(* identity; a repeated key refuses the list.                              *)
KeyValueList(entries) ==
    IF Repeated(entries) # {} THEN DuplicateKey(entries)
    ELSE Ok([kind |-> "KvList", entries |-> entries])

(* An attribute map forgets the order; a repeated key refuses the map.     *)
AttributesOf(pairs) ==
    IF Repeated(pairs) # {} THEN DuplicateKey(pairs)
    ELSE Ok([k \in {pairs[i].key : i \in DOMAIN pairs} |->
                pairs[CHOOSE i \in DOMAIN pairs : pairs[i].key = k].value])

NoAttributes == [k \in {} |-> None]

-----------------------------------------------------------------------------
(* The values one level inside a container, in order.                      *)
Children(v) ==
    CASE v.kind = "Array"  -> v.items
      [] v.kind = "KvList" -> [i \in DOMAIN v.entries |-> v.entries[i].value]
      [] OTHER -> <<>>

(* One round of the work stack all walks over a value share: every value   *)
(* on it gives way to what it contains.                                    *)
Below(level) ==
    UNION {{Children(v)[i] : i \in DOMAIN Children(v)} : v \in level}

Level(v, depth) ==
    LET down[n \in 0 .. depth] == IF n = 0 THEN {v} ELSE Below(down[n - 1])
    IN  down[depth]

(* Fault: only key-value lists count as a level.                           *)
ExceedsListNesting(v, limit) ==
    \E x \in Level(v, limit) : x.kind = "KvList"

(* A container counts one level; the walk stops at the first one past the  *)
(* limit.                                                                  *)
ExceedsNesting(v, limit) ==
    \E x \in Level(v, limit) : x.kind \in Containers
=============================================================================
