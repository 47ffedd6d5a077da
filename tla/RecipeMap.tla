----------------------------- MODULE RecipeMap -----------------------------
(***************************************************************************)
(* hpcrun's map from addresses to unwind recipes (unwind/common/           *)
(* uw_recipe_map.c), for one unwinder.  Intervals of addresses are kept in *)
(* a skip list: those of functions, whose recipes are built by the first   *)
(* sample that meets the function, and "poisoned" ones, for which there    *)
(* are none.  Mapping a load module cuts it out of the poisoned interval   *)
(* around it; unmapping it deletes its functions and joins the poisoned    *)
(* intervals on both sides again.  Each thread has a hash table of the     *)
(* recipes it found last.                                                  *)
(*                                                                         *)
(* A search, an insert and a deletion of the skip list are one step each:  *)
(* module CSkipList is about what happens inside them.  What matters here  *)
(* is that the list is ordered by the STARTS of the intervals, that a      *)
(* search by address compares whole intervals, and that it goes down the   *)
(* layers: two layers, the upper with some of the nodes, show every case   *)
(* in which a layer may hide or skip an interval.                          *)
(***************************************************************************)
EXTENDS Integers, FiniteSets

CONSTANTS Threads, loader,      \* threads sampled; the one that maps and unmaps
          UINTPTR_MAX,
          Modules,              \* [lm, start, end, table], table a set of addresses
          HashSize,
          Sampled,              \* bound: addresses that are looked up
          MapCramped,           \* bound: whether modules are mapped once `cramped'
          none

VARIABLES interval,             \* the nodes: start -> [end, stat, lm]
          upper,                \* starts of the nodes that layer 1 has too
          mapped,               \* load modules with a dso_info
          uw_hash,              \* hash table of each thread: [key, lm] or none
          pc, addr,             \* the lookup each thread is in, and its address
          ilm_btui,             \* the pair it has found or inserted, by its start
          freed,                \* threads whose pair has been freed meanwhile
          loading, module,      \* what the loader is doing, and to which module
          start, end,           \* locals of (un|re)poison
          cramped               \* history: less than two addresses were poisoned

map == <<interval, upper>>
lookup == <<pc, addr, ilm_btui>>
load == <<loading, module, start, end, cramped>>
vars == <<map, mapped, uw_hash, lookup, freed, load>>

left == -1                      \* place of the left sentinel

Smallest(S) == CHOOSE s \in S : \A t \in S : s <= t
Largest(S) == CHOOSE s \in S : \A t \in S : t <= s

Range(m) == m.start .. m.end - 1
Mapped == UNION { Range(m) : m \in mapped }

-----------------------------------------------------------------------------
(* The skip list *)

(* interval_t_inrange: whether the node that starts at s is to the left of    *)
(* address a, and whether it has it.                                          *)
Before(s, a) == s <= a /\ interval[s].end <= a
InRange(s, a) == s <= a /\ a < interval[s].end

(* The inner loop of cskiplist_find_helper: along one layer from node p, to   *)
(* the last node passed before one that is not to the left of a.              *)
Pass(S, p, a) ==
  LET ahead == { s \in S : s > p }
      stop == { s \in ahead : ~Before(s, a) }
      passed == IF stop = {} THEN ahead ELSE { s \in ahead : s < Smallest(stop) }
  IN  IF passed = {} THEN p ELSE Largest(passed)

Behind(S, p) == IF \E s \in S : s > p THEN Smallest({ s \in S : s > p }) ELSE UINTPTR_MAX

Hit(s, a) == s # UINTPTR_MAX /\ InRange(s, a)

(* cskl_inrange_find, and uw_recipe_map_inrange_find. *)
InrangeFind(a) ==
  LET upperPass == Pass(upper, left, a)
      s1 == Behind(upper, upperPass)
      s0 == Behind(DOMAIN interval, Pass(DOMAIN interval, upperPass, a))
  IN  IF Hit(s1, a) THEN s1 ELSE IF Hit(s0, a) THEN s0 ELSE none

(* cskl_insert: nothing changes if some node has the same start.  The height  *)
(* of a node is random.                                                       *)
Insert(s, e, stat, lm) ==
  IF s \in DOMAIN interval THEN UNCHANGED map
  ELSE /\ interval' = [t \in DOMAIN interval \cup {s} |->
            IF t = s THEN [end |-> e, stat |-> stat, lm |-> lm] ELSE interval[t]]
       /\ upper' \in {upper, upper \cup {s}}

(* A thread that has found a pair may be about to use it when it is freed. *)
Remove(lower, higher) ==
  /\ interval' = [s \in DOMAIN interval \ lower |-> interval[s]]
  /\ upper' = upper \ higher
  /\ freed' = freed \cup { t \in Threads : pc[t] \in {"cas", "build"} /\ ilm_btui[t] \in lower }

(* cskl_inrange_del_bulk_unsynch, for lo # hi: on each layer, what lies after *)
(* the last node left of lo up to the last left of hi goes, and, from the     *)
(* layer down where hi is found, the node behind that.                        *)
InrangeDelBulk(lo, hi) ==
  LET D == DOMAIN interval
      l1 == Pass(upper, left, lo)
      l0 == Pass(D, l1, lo)
      h1 == Pass(upper, l1, hi)
      h0 == Pass(D, h1, hi)
      at1 == Hit(Behind(upper, h1), hi)
      at0 == at1 \/ Hit(Behind(D, h0), hi)
  IN  Remove({ s \in D : l0 < s /\ (s <= h0 \/ (at0 /\ s = Behind(D, h0))) },
             { s \in upper : l1 < s /\ (s <= h1 \/ (at1 /\ s = Behind(upper, h1))) })

-----------------------------------------------------------------------------
(* uw_recipe_map_init: everything is poisoned. *)
Init ==
  /\ interval = [s \in {0} |-> [end |-> UINTPTR_MAX, stat |-> "NEVER", lm |-> none]]
  /\ upper \in SUBSET {0}
  /\ mapped = {}
  /\ uw_hash = [t \in Threads |-> [i \in 0 .. HashSize - 1 |-> none]]
  /\ pc = [t \in Threads |-> "idle"]
  /\ addr = [t \in Threads |-> 0]
  /\ ilm_btui = [t \in Threads |-> none]
  /\ freed = {}
  /\ loading = "idle" /\ module = none
  /\ start = 0 /\ end = 0
  /\ cramped = FALSE

(* An assumption: the program runs code of a module only while it is mapped,  *)
(* so no lookup in a module, and no work on its recipes, is under way when    *)
(* that module is mapped or unmapped.  And the thread that maps takes no      *)
(* samples meanwhile (hpcrun_safe_enter).  Other addresses, poisoned ones     *)
(* included, may be looked up by other threads at any time.                   *)
WorksOn(t, m) ==
  /\ pc[t] \in {"cas", "build"} /\ t \notin freed
  /\ interval[ilm_btui[t]].lm = m.lm
Idle(m) ==
  \A t \in Threads : pc[t] # "idle" => t # loader /\ addr[t] \notin Range(m) /\ ~WorksOn(t, m)

(* hpcrun_loadmap_map: the operating system gives a module a free range. *)
Map(m) ==
  /\ loading = "idle" /\ Idle(m)
  /\ cramped => MapCramped
  /\ \A n \in mapped : Range(m) \cap Range(n) = {}
  /\ mapped' = mapped \cup {m}
  /\ module' = m /\ loading' = "unpoison"
  /\ UNCHANGED <<map, uw_hash, lookup, freed, start, end, cramped>>

Return ==
  /\ loading' = "idle" /\ module' = none /\ start' = 0 /\ end' = 0

Poison(s, e) ==
  /\ Insert(s, e, "NEVER", none)
  /\ cramped' = (cramped \/ e - s < 2)

(* uw_recipe_map_unpoison: the poisoned interval around the module goes, and  *)
(* what is left of it on both sides is poisoned again.  The loader finds and  *)
(* deletes it in one step: no one else changes poisoned intervals.            *)
Unpoison ==
  LET s0 == InrangeFind(module.start)
  IN  /\ loading = "unpoison"
      /\ IF s0 = none THEN Return /\ UNCHANGED <<map, freed>>
         ELSE /\ start' = s0 /\ end' = interval[s0].end
              /\ Remove({s0}, {s0})
              /\ loading' = "poison left"
              /\ UNCHANGED module
      /\ UNCHANGED <<mapped, uw_hash, lookup, cramped>>

UnpoisonLeft ==
  /\ loading = "poison left"
  /\ Poison(start, module.start)
  /\ loading' = "poison right"
  /\ UNCHANGED <<mapped, uw_hash, lookup, freed, module, start, end>>

(* Faulty: the rest of the poisoned interval on the right is forgotten. *)
UnpoisonRight_not ==
  /\ loading = "poison right"
  /\ Return
  /\ UNCHANGED <<map, mapped, uw_hash, lookup, freed, cramped>>
UnpoisonRight ==
  /\ loading = "poison right"
  /\ Poison(module.end, end)
  /\ Return
  /\ UNCHANGED <<mapped, uw_hash, lookup, freed>>

(* uw_recipe_map_notify_unmap *)
Unmap(m) ==
  /\ loading = "idle" /\ m \in mapped /\ Idle(m)
  /\ InrangeDelBulk(m.start, m.end - 1)
  /\ module' = m /\ loading' = "join left" /\ start' = m.start /\ end' = m.end
  /\ UNCHANGED <<mapped, uw_hash, lookup, cramped>>

(* uw_recipe_map_repoison *)
JoinLeft ==
  LET s == InrangeFind(start - 1)
      joins == s # none /\ interval[s].end = start /\ interval[s].stat = "NEVER"
  IN  /\ loading = "join left"
      /\ IF start > 0 /\ joins THEN start' = s /\ Remove({s}, {s})
         ELSE UNCHANGED <<map, freed, start>>
      /\ loading' = "join right"
      /\ UNCHANGED <<mapped, uw_hash, lookup, module, end, cramped>>

JoinRight ==
  LET s == InrangeFind(end + 1)
      joins == s # none /\ s = end /\ interval[s].stat = "NEVER"
  IN  /\ loading = "join right"
      /\ IF end < UINTPTR_MAX /\ joins THEN end' = interval[s].end /\ Remove({s}, {s})
         ELSE UNCHANGED <<map, freed, end>>
      /\ loading' = "poison"
      /\ UNCHANGED <<mapped, uw_hash, lookup, module, start, cramped>>

Repoison ==
  /\ loading = "poison"
  /\ Poison(start, end)
  /\ loading' = "purge"
  /\ UNCHANGED <<mapped, uw_hash, lookup, freed, module, start, end>>

(* uw_hash_delete_range, on the table of the thread that unmaps. *)
uw_hash_delete_range(table, m) ==
  [i \in DOMAIN table |-> IF table[i] # none /\ table[i].key \in Range(m) THEN none ELSE table[i]]

(* The end of notify_unmap and of hpcrun_loadmap_unmap. *)
Purge ==
  /\ loading = "purge"
  /\ uw_hash' = [uw_hash EXCEPT ![loader] = uw_hash_delete_range(@, module)]
  /\ mapped' = mapped \ {module}
  /\ Return
  /\ UNCHANGED <<map, lookup, freed, cramped>>

-----------------------------------------------------------------------------
(* uw_recipe_map_lookup *)

Goto(t, place) == pc' = [pc EXCEPT ![t] = place]

End(t) ==
  /\ pc' = [pc EXCEPT ![t] = "idle"]
  /\ addr' = [addr EXCEPT ![t] = 0]
  /\ ilm_btui' = [ilm_btui EXCEPT ![t] = none]
  /\ freed' = freed \ {t}

Lookup(t, a) ==
  /\ pc[t] = "idle" /\ (t = loader => loading = "idle")
  /\ a \notin (IF loading = "idle" THEN {} ELSE Range(module))
  /\ addr' = [addr EXCEPT ![t] = a]
  /\ Goto(t, "hash")
  /\ UNCHANGED <<map, mapped, uw_hash, ilm_btui, freed, load>>

Entry(t) == uw_hash[t][addr[t] % HashSize]

(* bitree_uwi_inrange has a recipe for the address, and the thread keeps it,  *)
(* or has none: the recipes may not cover the function, and the function may  *)
(* not be the one of the address, when a freed pair is used for another.      *)
Recipe(t, s) ==
  \/ InRange(s, addr[t]) /\ uw_hash' = [uw_hash EXCEPT ![t][addr[t] % HashSize] = [key |-> addr[t], lm |-> interval[s].lm]]
  \/ UNCHANGED uw_hash

(* uw_recipe_map_lookup_helper, the hash table. *)
HashLookup(t) ==
  /\ pc[t] = "hash"
  /\ IF Entry(t) # none /\ Entry(t).key = addr[t] THEN Goto(t, "hit") ELSE Goto(t, "find")
  /\ UNCHANGED <<map, mapped, uw_hash, addr, ilm_btui, freed, load>>

HashHit(t) == pc[t] = "hit" /\ End(t) /\ UNCHANGED <<map, mapped, uw_hash, load>>

(* The rest of it.  Only a READY interval is of use at once. *)
Find(t) ==
  LET s == InrangeFind(addr[t])
  IN  /\ pc[t] = "find"
      /\ IF s # none /\ interval[s].stat = "READY" THEN Recipe(t, s) /\ End(t)
         ELSE /\ ilm_btui' = [ilm_btui EXCEPT ![t] = s]
              /\ Goto(t, IF s = none THEN "bounds" ELSE "cas")
              /\ UNCHANGED <<uw_hash, addr, freed>>
      /\ UNCHANGED <<map, mapped, load>>

(* fnbounds_enclosing_addr: a module is looked up with its end included, and  *)
(* its table has the starts of its functions and the end of the last one.     *)
(* The function is inserted, in a pair that may have been freed before, or    *)
(* another thread has inserted it meanwhile.                                  *)
InsertFunction(t) ==
  LET around == { n \in mapped : n.start <= addr[t] /\ addr[t] <= n.end }
  IN  /\ pc[t] = "bounds"
      /\ \/ around = {} /\ End(t) /\ UNCHANGED map
         \/ \E m \in around :
              LET upto == { x \in m.table : x <= addr[t] }
                  after == m.table \ upto
                  fcn_start == Largest(upto)
              IN  IF upto = {} \/ after = {} THEN End(t) /\ UNCHANGED map
                  ELSE /\ Insert(fcn_start, Smallest(after), "DEFERRED", m.lm)
                       /\ \E reused \in SUBSET (IF fcn_start \in DOMAIN interval THEN {} ELSE freed) :
                            /\ freed' = freed \ reused
                            /\ ilm_btui' = [u \in Threads |-> IF u \in reused \cup {t} THEN fcn_start
                                                              ELSE ilm_btui[u]]
                       /\ Goto(t, "cas")
                       /\ UNCHANGED addr
      /\ UNCHANGED <<mapped, uw_hash, load>>

SetStat(t, stat) == interval' = [interval EXCEPT ![ilm_btui[t]].stat = stat]

(* What it reads of its pair.  Only poisoned pairs are freed with a lookup    *)
(* about to use them (Idle), and the state stays in them until they are used  *)
(* again.  A lookup whose list node is freed instead reads no pair, and finds *)
(* no function at its address: it ends as well.                               *)
Stat(t) == IF t \in freed THEN "NEVER" ELSE interval[ilm_btui[t]].stat

(* Faulty: whoever finds the recipes unbuilt or being built builds them. *)
Cas_anyone(t) ==
  LET stat == Stat(t)
  IN  /\ pc[t] = "cas"
      /\ CASE stat \in {"DEFERRED", "FORTHCOMING"} ->
                SetStat(t, "FORTHCOMING") /\ Goto(t, "build") /\ UNCHANGED <<uw_hash, addr, ilm_btui, freed>>
           [] stat = "READY" -> Recipe(t, ilm_btui[t]) /\ End(t) /\ UNCHANGED interval
           [] stat = "NEVER" -> End(t) /\ UNCHANGED <<interval, uw_hash>>
      /\ UNCHANGED <<upper, mapped, load>>
(* The thread whose exchange succeeds builds the recipes.  Another one waits  *)
(* for it; poisoned addresses have none.                                      *)
Cas(t) ==
  LET stat == Stat(t)
  IN  /\ pc[t] = "cas" /\ stat # "FORTHCOMING"
      /\ CASE stat = "DEFERRED" ->
                SetStat(t, "FORTHCOMING") /\ Goto(t, "build") /\ UNCHANGED <<uw_hash, addr, ilm_btui, freed>>
           [] stat = "READY" -> Recipe(t, ilm_btui[t]) /\ End(t) /\ UNCHANGED interval
           [] stat = "NEVER" -> End(t) /\ UNCHANGED <<interval, uw_hash>>
      /\ UNCHANGED <<upper, mapped, load>>

Build(t) ==
  /\ pc[t] = "build"
  /\ SetStat(t, "READY")
  /\ Recipe(t, ilm_btui[t])
  /\ End(t)
  /\ UNCHANGED <<upper, mapped, load>>

(* build_intervals has crashed, and sigsetjmp returns a second time. *)
Crash(t) ==
  /\ pc[t] = "build"
  /\ SetStat(t, "NEVER")
  /\ End(t)
  /\ UNCHANGED <<upper, mapped, uw_hash, load>>

-----------------------------------------------------------------------------
LookupStep(t) ==
  HashLookup(t) \/ HashHit(t) \/ Find(t) \/ InsertFunction(t) \/ Cas(t) \/ Build(t) \/ Crash(t)
LoadStep ==
  \/ Unpoison \/ UnpoisonLeft \/ UnpoisonRight
  \/ JoinLeft \/ JoinRight \/ Repoison \/ Purge
Next ==
  \/ \E m \in Modules : Map(m) \/ Unmap(m)
  \/ LoadStep
  \/ \E t \in Threads : \/ \E a \in Sampled : Lookup(t, a)
                        \/ LookupStep(t)

Spec == Init /\ [][Next]_vars

-----------------------------------------------------------------------------

(* When no module is being mapped or unmapped, a search finds a poisoned      *)
(* interval exactly for the addresses outside of the mapped modules           *)
(* (uw_recipe_map.c:480: "start should be in range of some poisoned           *)
(* interval"): one that is missing lets a later module be mapped with its     *)
(* neighbourhood not poisoned, one too many hides a module's functions from   *)
(* the unwinder for good.  That is so as long as there are at least two       *)
(* addresses between modules: see StartPoisoned.                              *)
PoisonExact ==
  loading = "idle" /\ ~cramped =>
    \A a \in 0 .. UINTPTR_MAX - 1 :
      LET s == InrangeFind(a)
      IN  (s # none /\ interval[s].lm = none) <=> a \notin Mapped

(* The recipes of a function are built by one thread at a time, and while     *)
(* they are being built somebody is building them.                            *)
OneBuilder ==
  \A s \in DOMAIN interval :
    Cardinality({ t \in Threads : pc[t] = "build" /\ ilm_btui[t] = s })
      = IF interval[s].stat = "FORTHCOMING" THEN 1 ELSE 0

(* The map's interface, uw_recipe_map.h: "if addr is found in range in the    *)
(* map, return true and *unwr_info is the ilmstat_btuwi_pair_t".  The recipe  *)
(* a lookup gets from its thread's hash table is then one of the module that  *)
(* is mapped at the address now.                                              *)
EveryHashCurrent ==
  \A t \in Threads : pc[t] = "hit" =>
    \E m \in mapped : Entry(t).lm = m.lm /\ addr[t] \in Range(m)

(* uw_recipe_map.c:480, where a module is mapped: "start should be in range   *)
(* of some poisoned interval".                                                *)
StartPoisoned == loading = "unpoison" => InrangeFind(module.start) # none

=============================================================================
