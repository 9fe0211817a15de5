----------------------------- MODULE MCGameFiles -----------------------------
(* Instances of GameFiles and Bootstrapper, a handful of files of each     *)
(* kind, and inputs for LaunchArgs and LoaderVersions.                     *)
EXTENDS LaunchChoices

Client == [route |-> "client", loader |-> "fabric", faults |-> 2]
Forge == [route |-> "instance", loader |-> "forge", faults |-> 3]
Plain == [route |-> "instance", loader |-> "vanilla", faults |-> 2]
Installs == [route |-> "start", loader |-> "vanilla", faults |-> 3]
All == {Client, Forge, Plain, Installs}
Nothing == {}

(* What LaunchArgs is given: two libraries in two versions, up to two of   *)
(* them in a file; and one library under every list of up to two rules.    *)
UpTo(n, S) == UNION {[1..k -> S] : k \in 0..n}
Profiled == [ga : {"g", "h"}, ver : {1, 2}, cls : {""}, clientreq : BOOLEAN,
             artifact : {FALSE}, rules : {<< >>}]
Nameless == [ga |-> "", ver |-> 1, cls |-> "", clientreq |-> TRUE, artifact |-> TRUE,
             rules |-> << >>]
SomeProfiles == UpTo(2, Profiled \cup {Nameless})
Free == [ga : {"g"}, ver : {1, 2}, cls : {"", "natives"}, clientreq : {TRUE},
         artifact : BOOLEAN, rules : {<< >>}]
        \cup [ga : {"h"}, ver : {1, 2}, cls : {""}, clientreq : {TRUE},
              artifact : {TRUE}, rules : {<< >>}]
Ruled == [ga : {"g"}, ver : {1}, cls : {""}, clientreq : {TRUE}, artifact : {TRUE},
          rules : UpTo(2, Rule)]
SomeVersions == UpTo(2, Free) \cup [1..1 -> Ruled]
SomeTexts == [agent : {0, 2}, libs : UpTo(3, 1..3), client : 1..3]
Lists == {[i \in 1..n |-> "plain"] : n \in {0, 1, 31, 33, 150}} \cup {<<"rule", "plain">>}
SomeJsons == [modern : BOOLEAN, tweak : BOOLEAN, jvm : Lists, game : Lists]
(* Games one of whose prefixes is the beginning of the other's, as text or *)
(* number by number, and lists of up to three versions for them, in any    *)
(* order.                                                                  *)
SomeGames == {<<1, 20, 4>>, <<1, 20, 40>>, <<1, 21>>, <<1, 21, 1>>,
              <<26, 1>>, <<26, 2>>, <<26, 1, 1>>}
Num(n) == [n |-> n, beta |-> FALSE]
SomeVersionsOf == {<<Num(20), Num(4), Num(9)>>, <<Num(20), Num(4), Num(10)>>,
                   <<Num(20), Num(4), Num(9), Num(1)>>, <<Num(20), Num(40), Num(2)>>,
                   <<Num(21), Num(0), Num(3)>>, <<Num(21), Num(1), Num(2)>>,
                   <<Num(26), Num(1), Num(1), Num(2)>>,
                   <<Num(20), Num(4), [n |-> 8, beta |-> TRUE]>>}
SomeBuilds == UpTo(3, SomeVersionsOf)
SomePromotions ==
    UNION {[S -> {<<Num(47)>>, <<Num(48)>>}]
           : S \in SUBSET ({<<1, 20, 4>>, <<1, 21>>} \X {"recommended", "latest"})}
SomeAmounts == {0, 1, 255, 256, 511, 512, 513, 4095, 4096, 4097, 65536}

=============================================================================
