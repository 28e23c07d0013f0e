--------------------------- MODULE MCAgentXIndex ---------------------------
(* Small instances of AgentXIndex for TLC. *)
EXTENDS AgentXIndex

CONSTANTS sa, sb, ix, iy   \* sessions, indexes

AnyVbs(syntaxes) == {[index |-> ix, syntax |-> syn, value |-> 0] : syn \in syntaxes}
Explicit(i, syn, vs) == {[index |-> i, syntax |-> syn, value |-> v] : v \in vs}

OneVb(kinds, vbs) ==
    {[kind |-> k, session |-> s, vbs |-> <<b>>] : k \in kinds, s \in {sa, sb}, b \in vbs}
TwoVbs(kinds, vbs, wbs) ==
    {[kind |-> k, session |-> s, vbs |-> <<b, c>>] :
        k \in kinds, s \in {sa, sb}, b \in vbs, c \in wbs}

ExplicitPdus ==
    OneVb({"allocate", "deallocate"}, Explicit(ix, "int32", 1 .. 2))
      \union OneVb({"allocate"}, Explicit(ix, "int32", {-1}))
      \union TwoVbs({"allocate", "deallocate"}, Explicit(ix, "int32", {1}), Explicit(iy, "octets", {2}))
      \union OneVb({"new"}, AnyVbs({"int32", "octets"}))

\* Values of iy are allocated by name, those of ix by any_index and new_index.
ApartPdus ==
    OneVb({"allocate", "deallocate"}, Explicit(iy, "int32", 1 .. 2))
      \union {p \in OneVb({"allocate"}, Explicit(iy, "int32", {-1})) : p.session = sb}
      \union OneVb({"any", "new"}, AnyVbs({"int32"}))
      \union OneVb({"deallocate"}, Explicit(ix, "int32", {1}))
      \union {p \in TwoVbs({"new"}, AnyVbs({"int32"}), Explicit(iy, "int32", {0}))
                  \union TwoVbs({"deallocate"}, Explicit(ix, "int32", {2}),
                                               Explicit(iy, "int32", {1})) : p.session = sa}

MixedPdus ==
    OneVb({"allocate", "deallocate"}, Explicit(ix, "int32", 1 .. 2))
      \union OneVb({"new", "any"}, AnyVbs({"int32"}))
=============================================================================
