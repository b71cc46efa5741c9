------------------------------- MODULE Tables -------------------------------
(***************************************************************************)
(* core/balance.c, core/output_ids.c, core/unspent_outputs.c: the three    *)
(* nested tables of what an address holds.  A uthash table iterates in     *)
(* insertion order, so a table is a sequence of entries:                   *)
(*   balance_ht_t       [color, value]                                     *)
(*   output_ids_t       [id, balances, st]                                 *)
(*   unspent_outputs_t  [addr, addr_index, spent, ids]                     *)
(* Every entry is allocated, and an allocation that fails drops the entry; *)
(* no caller looks at the result.  So an operation that adds has a set of  *)
(* possible outcomes.                                                      *)
(***************************************************************************)
EXTENDS IotaStr

CONSTANT Modulus   \* the range of a sum: 2^64 in the code, small in the runs

ASSUME TablesAssumption == Modulus \in Nat \ {0}

-----------------------------------------------------------------------------
(* What uthash does.  Deleting is unlinking the one entry that was found;  *)
(* the code below looks for it first.  balance_ht_remove does not, and     *)
(* deletes NULL for a color the table lacks; only a test calls it, and it  *)
(* is left out.                                                            *)

HASH_FIND(t, field, key) == { k \in DOMAIN t : t[k][field] = key }

HASH_DEL(t, field, key) ==
  LET found == HASH_FIND(t, field, key)
  IN  IF found = {} THEN t ELSE RemoveAt(t, Min(found))

\* malloc and HASH_ADD of one entry.
Added(t, e) == { Append(t, e) } \union { u \in {t} : AllocMayFail }

\* A new table to which Add adds the entries of t one by one.
Collected(Add(_, _), t) ==
  FoldLeft(LAMBDA outs, e : UNION { Add(u, e) : u \in outs }, {<<>>}, t)

Summed(values) == FoldLeft(LAMBDA sum, v : (sum + v) % Modulus, 0, values)

-----------------------------------------------------------------------------
(* core/balance.c.                                                         *)

\* Mutation: an amount of a known color is entered beside the first.
balance_ht_add_Again(t, color, value) == Added(t, [color |-> color, value |-> value])

\* A second amount of a color is refused.
balance_ht_add(t, color, value) ==
  IF HASH_FIND(t, "color", color) # {} THEN {t}
  ELSE Added(t, [color |-> color, value |-> value])

balance_ht_clone(t) ==
  Collected(LAMBDA u, e : balance_ht_add(u, e.color, e.value), t)

balance_ht_sum(t) == Summed([k \in DOMAIN t |-> t[k].value])

balance_ht_sum_with_color(t, color) ==
  Summed([k \in DOMAIN t |-> IF t[k].color = color THEN t[k].value ELSE 0])

-----------------------------------------------------------------------------
(* core/output_ids.c.                                                      *)

\* An id the table has keeps its balances and state.
output_ids_add(t, id, balances, st) ==
  IF HASH_FIND(t, "id", id) # {} THEN {t}
  ELSE UNION { Added(t, [id |-> id, balances |-> b, st |-> st]) :
               b \in balance_ht_clone(balances) }

output_ids_update(t, id, balances, st) ==
  output_ids_add(HASH_DEL(t, "id", id), id, balances, st)

output_ids_clone(t) ==
  Collected(LAMBDA u, e : output_ids_add(u, e.id, e.balances, e.st), t)

output_ids_balance(t) ==
  Summed([k \in DOMAIN t |->
            IF t[k].st["confirmed"] THEN balance_ht_sum(t[k].balances) ELSE 0])

\* Mutation: unconfirmed outputs count.
ids_balance_with_color_Any(t, color) ==
  Summed([k \in DOMAIN t |-> balance_ht_sum_with_color(t[k].balances, color)])

output_ids_balance_with_color(t, color) ==
  Summed([k \in DOMAIN t |->
            IF t[k].st["confirmed"] THEN balance_ht_sum_with_color(t[k].balances, color) ELSE 0])

-----------------------------------------------------------------------------
(* core/unspent_outputs.c.                                                 *)

unspent_outputs_add(t, addr, addr_index, ids) ==
  IF HASH_FIND(t, "addr", addr) # {} THEN {t}
  ELSE UNION { Added(t, [addr |-> addr, addr_index |-> addr_index,
                         spent |-> FALSE, ids |-> c]) : c \in output_ids_clone(ids) }

\* The ids of one entry replaced by one of the given outcomes; an address the
\* table lacks changes nothing.
WithIds(t, addr, Outcomes(_)) ==
  LET found == HASH_FIND(t, "addr", addr)
  IN  IF found = {} THEN {t}
      ELSE UNION { { [t EXCEPT ![k].ids = c] : c \in Outcomes(t[k].ids) } : k \in found }

unspent_outputs_update(t, addr, ids) ==
  WithIds(t, addr, LAMBDA old : output_ids_clone(ids))

\* The ids the entry lacks are added to those it has.
AppendedIds(old, ids) ==
  FoldLeft(LAMBDA outs, e : UNION { output_ids_add(u, e.id, e.balances, e.st) : u \in outs },
           {old}, ids)

unspent_outputs_append_id(t, addr, ids) ==
  WithIds(t, addr, LAMBDA old : AppendedIds(old, ids))

\* The clone does not know what is spent.
unspent_outputs_clone(t) ==
  Collected(LAMBDA u, e : unspent_outputs_add(u, e.addr, e.addr_index, e.ids), t)

unspent_outputs_remove(t, addr) == HASH_DEL(t, "addr", addr)

unspent_outputs_set_spent(t, addr, spent) ==
  [k \in DOMAIN t |-> IF t[k].addr = addr THEN [t[k] EXCEPT !.spent = spent] ELSE t[k]]

\* What counts and may be spent.
Offered(t) == Kept(t, { k \in DOMAIN t : ~t[k].spent /\ t[k].ids # <<>> })

unspent_outputs_balance(t) ==
  LET offered == Offered(t)
  IN  Summed([k \in DOMAIN offered |-> output_ids_balance(offered[k].ids)])

unspent_outputs_balance_with_color(t, color) ==
  LET offered == Offered(t)
  IN  Summed([k \in DOMAIN offered |-> output_ids_balance_with_color(offered[k].ids, color)])

\* Mutation: the entry that reaches the sum is left out.
RequiredCount_OneShort(t, required, color) ==
  LET n == Len(Offered(t))
      enough == { k \in 1 .. n :
                    unspent_outputs_balance_with_color(SubSeq(Offered(t), 1, k), color)
                      >= required }
  IN  IF enough = {} THEN n ELSE Min(enough) - 1

\* The first entry is taken whatever is required, the next ones until the sum
\* reaches it.
RequiredCount(t, required, color) ==
  LET n == Len(Offered(t))
      enough == { k \in 1 .. n :
                    unspent_outputs_balance_with_color(SubSeq(Offered(t), 1, k), color)
                      >= required }
  IN  IF enough = {} THEN n ELSE Min(enough)

\* The sum counts an entry also if its copy could not be allocated.
unspent_outputs_required_outputs(t, required, color) ==
  unspent_outputs_clone(SubSeq(Offered(t), 1, RequiredCount(t, required, color)))
=============================================================================
