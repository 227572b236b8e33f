-------------------------- MODULE MCAgentPreflight ---------------------------
EXTENDS AgentPreflight, SequencesExt, TLC

Stp == [op |-> 169, o0 |-> 1]
Brk == [op |-> 212, o0 |-> 0]
Sub == [op |-> 209, o0 |-> 1]
Prologue == <<Stp, Stp, Stp, Stp>>
Line(k, v) == [key |-> k, value |-> v]
Symbol(n, c) == Line("symbol", [name |-> n, code |-> c])
Library(n) == [module |-> n, file_size |-> 1, sha256 |-> "hash", build_id |-> "id"]

Good ==
  <<Line("schema", 2), Line("module", "service"), Line("file_size", 1), Line("sha256", "hash"),
    Line("build_id", "id"), Line("architecture", "arm64"),
    Symbol("transact", Prologue), Symbol("characteristics", <<Sub, Sub, Sub, Sub>>),
    Line("hook", [role |-> "on_transact", symbol |-> "transact"]),
    Line("transaction", [role |-> "connect", code |-> 1]),
    Line("transaction", [role |-> "listen", code |-> 2]), Line("dependency", Library("client"))>>
MCProfile == FoldLeft(Enter, Blank, Good)

(* One instruction of every kind at the first and the last place.          *)
Planned == {[Good EXCEPT ![7] = Symbol("transact", [Prologue EXCEPT ![k] = i])]
              : k \in {1, 4}, i \in Instruction}

(* A line left out, repeated or replaced; the shorter and the longer       *)
(* prologue; roles, codes and names given twice.                           *)
Edited ==
  {RemoveAt(Good, k) : k \in DOMAIN Good} \cup {Append(Good, Good[k]) : k \in DOMAIN Good}
    \cup {Append(Good, l) : l \in
          {Line("malformed", None), Line("schema", 1), Line("schema", 3),
           Line("architecture", "arm"), Line("hook", [role |-> "other", symbol |-> "absent"]),
           Line("hook", [role |-> "other", symbol |-> "characteristics"]),
           Line("transaction", [role |-> "torch", code |-> 2]),
           Line("transaction", [role |-> "listen", code |-> 3]),
           Line("dependency", Library("other")), Symbol("transact", <<Stp, Stp, Stp, Stp, Sub>>),
           Symbol("transact", <<Sub>>)}}
    \cup {[Good EXCEPT ![7] = Symbol("transact", c)] :
             c \in {<<Stp, Stp, Stp>>, <<Stp, Stp, Stp, Stp, Sub>>}}
    \cup {[Good EXCEPT ![9] = Line("hook", [role |-> "other", symbol |-> "transact"])],
          [Good EXCEPT ![11] = Line("transaction", [role |-> "listen", code |-> 3])]}
Texts == {Good} \cup Planned \cup Edited

Mapping(a, b) == [start |-> a, end |-> b, readable |-> TRUE, writable |-> FALSE,
                  executable |-> TRUE, private |-> TRUE, module |-> TRUE]

(* The function is at 2 to 5: whole, split, cut, followed or preceded by   *)
(* other pages.                                                            *)
SomeMaps ==
  {<<Mapping(0, 8)>>, <<Mapping(2, 6)>>, <<Mapping(0, 4), Mapping(4, 8)>>,
   <<Mapping(0, 5)>>, <<Mapping(3, 8)>>,
   <<Mapping(0, 3), [Mapping(3, 8) EXCEPT !.writable = TRUE]>>,
   <<[Mapping(0, 8) EXCEPT !.writable = TRUE]>>,
   <<[Mapping(0, 8) EXCEPT !.readable = FALSE]>>, <<[Mapping(0, 8) EXCEPT !.module = FALSE]>>,
   <<[Mapping(0, 8) EXCEPT !.executable = FALSE]>>,
   <<[Mapping(0, 8) EXCEPT !.private = FALSE]>>, <<>>}
MCSymbolAt == [transact |-> 2, characteristics |-> 20]

Loaded(n) == [suffixes |-> {n}, file_size |-> 1, sha256 |-> "hash", notes |-> <<<<"other", "id">>>>,
              executable |-> {[start |-> 2, end |-> 7], [start |-> 20, end |-> 30]}]
Whole == <<Loaded("service"), Loaded("client"), Loaded("other")>>
Faulty(l) == {[l EXCEPT !.file_size = 2], [l EXCEPT !.sha256 = None], [l EXCEPT !.notes = <<>>],
              [l EXCEPT !.notes = <<<<"overrun", "id">>, <<"other">>>>],
              [l EXCEPT !.notes = <<<<"overrun", "wrong">>, <<"id">>>>],
              [l EXCEPT !.executable = {[start |-> 3, end |-> 30]}]}
Processes ==
  {Whole, SubSeq(Whole, 2, 3), RemoveAt(Whole, 2),
   <<[Loaded("service") EXCEPT !.sha256 = "decoy"]>> \o Whole}
    \cup {[Whole EXCEPT ![k] = l] :
             k \in {1, 2}, l \in Faulty(Loaded("service")) \cup Faulty(Loaded("client"))}

Clear == [blocked |-> {}, pending |-> {}]
Threads(c, t) == (1 :> c @@ 2 :> t)
SomeThreads ==
  {Threads(Clear, Clear), Threads(Clear, [blocked |-> {1, 2}, pending |-> {1}]),
   Threads([blocked |-> {2}, pending |-> {2}], Clear)}

Live(x) ==
  [transact |-> (IF x[7].key = "symbol" /\ x[7].value.name = "transact"
                 THEN x[7].value.code ELSE Prologue) \o <<Sub, Sub>>,
   characteristics |-> <<Sub, Sub, Sub, Sub>>]
Case(x, e, p, m, t, c) ==
  [entry |-> e, process |-> p, code |-> Live(x), maps |-> m, threads |-> t, claimed |-> c]
Usual(x, e) == Case(x, e, Whole, <<Mapping(0, 8)>>, Threads(Clear, Clear), {})
Starts ==
  [x \in Texts |->
    IF x \in Edited THEN {Usual(x, e) : e \in {"validate", "preflight"}}
    ELSE IF x # Good THEN {Usual(x, "plan")}
    ELSE {Case(x, "preflight", Whole, m, Threads(Clear, Clear), {}) : m \in SomeMaps}
      \cup {Case(x, e, p, <<Mapping(0, 8)>>, Threads(Clear, Clear), {})
             : e \in {"validate", "plan"}, p \in Processes}
      \cup {Case(x, "signal_preflight", Whole, <<Mapping(2, 6)>>, t, {}) : t \in SomeThreads}]
=============================================================================
