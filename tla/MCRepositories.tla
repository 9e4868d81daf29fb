--------------------------- MODULE MCRepositories ---------------------------
EXTENDS Repositories, TLC

CONSTANTS c1, c2, c3, p1, n1, n2, r1, r2, r3

MCTwo == {c1, c2}
MCThree == {c1, c2, c3}
MCProviders == {p1}
MCNone == {}
MCNoProvider == [c \in MCTwo |-> NoProvider]
MCOneProvider == [c \in MCThree |-> p1]
Mode(patient, crashes, fails, opens, namespaces, resources, maxBookmarks) ==
  [patient |-> patient, crashes |-> crashes, fails |-> fails, opens |-> opens,
   clusters |-> MCTwo, namespaces |-> namespaces, resources |-> resources,
   maxBookmarks |-> maxBookmarks]
MCCrashing == {Mode(FALSE, TRUE, TRUE, FALSE, {n1}, {r1, r2}, 2)}
MCSettled == {Mode(TRUE, TRUE, TRUE, FALSE, {n1, n2}, {r1, r2, r3}, 1),
              Mode(FALSE, FALSE, FALSE, TRUE, {n1, n2}, {r1, r2, r3}, 1),
              Mode(TRUE, FALSE, FALSE, TRUE, {n1, n2}, {r1, r2, r3}, 1)}
\* Lists of three, from which an entry may be lost.
MCDrops == {Mode(FALSE, FALSE, FALSE, FALSE, {n1}, {r1, r2}, 3),
            [Mode(FALSE, FALSE, FALSE, FALSE, {n1}, {}, 0) EXCEPT !.clusters = MCThree]}
MCAll == MCCrashing \cup MCSettled \cup MCDrops
MCOpening == {Mode(TRUE, TRUE, FALSE, TRUE, {n1}, {r1}, 2)}
MCNamespace == {n1}
MCNamespaces == {n1, n2}
MCResource == {r1}
MCNoObjects == << >>
MCObjects == (r2 :> NoNamespace) @@ (r3 :> n2)
MCSymmetry == Permutations(MCTwo)
MCResources == {r1, r2, r3}
=============================================================================
