----------------------------- MODULE FileProofs -----------------------------
\* What holds of the files of a launch and of an installation, for every set of
\* files and plays, and for any number of failures and crashes: proved with TLAPS.
\*
\* Both invariants follow the place of the start.  Control says which places a
\* play can be at and which files it has open there; Disk, what one step may do
\* to the files it does not own.  With these two, only a few places can disturb
\* a part of GameInv, and every other step keeps it by Quiet.
EXTENDS TLAPS, SequenceTheorems, LaunchChoices
LOCAL INSTANCE SequencesExt
LOCAL INSTANCE FiniteSetsExt
LOCAL INSTANCE Folds
LOCAL INSTANCE FiniteSetTheorems

-----------------------------------------------------------------------------
(* The order of the steps.                                                 *)

\* After(s) is what comes after the only place of s in Steps.
LEMMA AfterIs ==
  ASSUME NEW k \in DOMAIN Steps, NEW s, Steps[k] = s,
         \A i \in DOMAIN Steps : Steps[i] = s => i = k
  PROVE  After(s) = Steps[k + 1]
<1>1. (CHOOSE i \in DOMAIN Steps : Steps[i] = s) = k
  OBVIOUS
<1> QED
  BY <1>1 DEF After

\* Two sequences one after the other, and three.
LEMMA Appended ==
  ASSUME NEW S, NEW a \in Seq(S), NEW b \in Seq(S)
  PROVE  /\ a \o b \in Seq(S)
         /\ Len(a \o b) = Len(a) + Len(b)
         /\ \A i \in 1..Len(a) : (a \o b)[i] = a[i]
         /\ \A i \in 1..Len(b) : (a \o b)[Len(a) + i] = b[i]
<1>1. /\ a \o b \in Seq(S) /\ Len(a \o b) = Len(a) + Len(b)
      /\ \A i \in 1..Len(a) + Len(b) : (a \o b)[i] = IF i <= Len(a) THEN a[i] ELSE b[i - Len(a)]
  BY ConcatProperties
<1>2. Len(a) \in Nat /\ Len(b) \in Nat
  OBVIOUS
<1>3. ASSUME NEW i \in 1..Len(a) PROVE (a \o b)[i] = a[i]
  BY <1>1, <1>2
<1>4. ASSUME NEW i \in 1..Len(b) PROVE (a \o b)[Len(a) + i] = b[i]
  <2>1. /\ Len(a) + i \in 1..Len(a) + Len(b) /\ ~(Len(a) + i <= Len(a))
        /\ (Len(a) + i) - Len(a) = i
    BY <1>2
  <2> QED
    BY <1>1, <2>1
<1> QED
  BY <1>1, <1>3, <1>4

LEMMA Joined ==
  ASSUME NEW S, NEW a \in Seq(S), NEW b \in Seq(S), NEW c \in Seq(S)
  PROVE  /\ a \o b \o c \in Seq(S)
         /\ Len(a \o b \o c) = Len(a) + Len(b) + Len(c)
         /\ \A i \in 1..Len(a) : (a \o b \o c)[i] = a[i]
         /\ \A i \in 1..Len(b) : (a \o b \o c)[Len(a) + i] = b[i]
         /\ \A i \in 1..Len(c) : (a \o b \o c)[Len(a) + Len(b) + i] = c[i]
<1> DEFINE ab == a \o b
<1>1. /\ ab \in Seq(S) /\ Len(ab) = Len(a) + Len(b)
      /\ \A i \in 1..Len(a) : ab[i] = a[i]
      /\ \A i \in 1..Len(b) : ab[Len(a) + i] = b[i]
  BY Appended
<1> HIDE DEF ab
<1>2. /\ ab \o c \in Seq(S) /\ Len(ab \o c) = Len(ab) + Len(c)
      /\ \A i \in 1..Len(ab) : (ab \o c)[i] = ab[i]
      /\ \A i \in 1..Len(c) : (ab \o c)[Len(ab) + i] = c[i]
  <2>1. ab \in Seq(S)
    BY <1>1
  <2> QED
    BY <2>1, Appended
<1>3. Len(a) \in Nat /\ Len(b) \in Nat /\ Len(c) \in Nat
  OBVIOUS
<1>4. \A i \in 1..Len(a) : i \in 1..Len(ab)
  BY <1>1, <1>3
<1>5. \A i \in 1..Len(b) : Len(a) + i \in 1..Len(ab)
  BY <1>1, <1>3
<1>6. /\ \A i \in 1..Len(a) : (ab \o c)[i] = a[i]
      /\ \A i \in 1..Len(b) : (ab \o c)[Len(a) + i] = b[i]
      /\ \A i \in 1..Len(c) : (ab \o c)[Len(a) + Len(b) + i] = c[i]
  BY <1>1, <1>2, <1>4, <1>5
<1>7. Len(ab \o c) = Len(a) + Len(b) + Len(c)
  BY <1>1, <1>2
<1> QED
  BY <1>2, <1>6, <1>7 DEF ab

\* The places that Steps lists.
Places == {"client", "java", "profile", "installer", "plibs", "process", "main",
           "mapped", "djava", "maps", "tiny", "remap",
           "vlibs", "natives", "aindex", "assets", "llibs", "run"}

\* Steps as three pieces: those before the loader, the loader, those after.
LEMMA Laid ==
  ASSUME NEW a \in Seq(Places), NEW b \in Seq(Places), NEW c \in Seq(Places),
         Steps = a \o b \o c
  PROVE  /\ DOMAIN Steps = 1..Len(a) + Len(b) + Len(c)
         /\ \A i \in 1..Len(a) : Steps[i] = a[i]
         /\ \A i \in 1..Len(b) : Steps[Len(a) + i] = b[i]
         /\ \A i \in 1..Len(c) : Steps[Len(a) + Len(b) + i] = c[i]
<1>1. /\ a \o b \o c \in Seq(Places)
      /\ Len(a \o b \o c) = Len(a) + Len(b) + Len(c)
      /\ \A i \in 1..Len(a) : (a \o b \o c)[i] = a[i]
      /\ \A i \in 1..Len(b) : (a \o b \o c)[Len(a) + i] = b[i]
      /\ \A i \in 1..Len(c) : (a \o b \o c)[Len(a) + Len(b) + i] = c[i]
  BY Joined
<1>2. DOMAIN (a \o b \o c) = 1..Len(a \o b \o c)
  BY <1>1, LenProperties
<1> QED
  BY <1>1, <1>2

\* What follows each step of a Forge instance, and then of the four other
\* kinds of launch.
LEMMA ForgeAfter ==
  ASSUME play.route = "instance", play.loader = "forge"
  PROVE  /\ After("client") = "java" /\ After("java") = "installer" /\ After("plibs") = "process"
         /\ After("process") = "main" /\ After("main") = "vlibs" /\ After("vlibs") = "natives"
         /\ After("natives") = "aindex" /\ After("assets") = "llibs" /\ After("llibs") = "run"
<1> DEFINE a == <<"client", "java">>
<1> DEFINE b == <<"installer", "plibs", "process">>
<1> DEFINE c == <<"main", "vlibs", "natives", "aindex", "assets", "llibs", "run">>
<1>1. a \in Seq(Places)
  BY DEF Places
<1>2. b \in Seq(Places)
  BY DEF Places
<1>3. c \in Seq(Places)
  BY DEF Places
<1>4. Steps = a \o b \o c
  BY <1>1, <1>2, <1>3, ConcatEmptySeq DEF Steps, OnlyFabric
<1>5. Len(a) = 2 /\ Len(b) = 3 /\ Len(c) = 7
  OBVIOUS
<1>6. /\ a[1] = "client" /\ a[2] = "java" /\ b[1] = "installer" /\ b[2] = "plibs"
      /\ b[3] = "process" /\ c[1] = "main" /\ c[2] = "vlibs" /\ c[3] = "natives"
      /\ c[4] = "aindex" /\ c[5] = "assets" /\ c[6] = "llibs" /\ c[7] = "run"
  OBVIOUS
<1> HIDE DEF a, b, c
<1>7. /\ DOMAIN Steps = 1..Len(a) + Len(b) + Len(c)
      /\ \A i \in 1..Len(a) : Steps[i] = a[i]
      /\ \A i \in 1..Len(b) : Steps[Len(a) + i] = b[i]
      /\ \A i \in 1..Len(c) : Steps[Len(a) + Len(b) + i] = c[i]
  BY <1>1, <1>2, <1>3, <1>4, Laid
<1>8. /\ DOMAIN Steps = 1..12 /\ Steps[1] = "client" /\ Steps[2] = "java" /\ Steps[3] = "installer"
      /\ Steps[4] = "plibs" /\ Steps[5] = "process" /\ Steps[6] = "main" /\ Steps[7] = "vlibs"
      /\ Steps[8] = "natives" /\ Steps[9] = "aindex" /\ Steps[10] = "assets" /\ Steps[11] = "llibs"
      /\ Steps[12] = "run"
  BY <1>5, <1>6, <1>7
<1>9. After("client") = "java"
  BY <1>8, AfterIs
<1>10. After("java") = "installer"
  BY <1>8, AfterIs
<1>11. After("plibs") = "process"
  BY <1>8, AfterIs
<1>12. After("process") = "main"
  BY <1>8, AfterIs
<1>13. After("main") = "vlibs"
  BY <1>8, AfterIs
<1>14. After("vlibs") = "natives"
  BY <1>8, AfterIs
<1>15. After("natives") = "aindex"
  BY <1>8, AfterIs
<1>16. After("assets") = "llibs"
  BY <1>8, AfterIs
<1>17. After("llibs") = "run"
  BY <1>8, AfterIs
<1> QED
  BY <1>9, <1>10, <1>11, <1>12, <1>13, <1>14, <1>15, <1>16, <1>17

LEMMA FabricAfter ==
  ASSUME play.route = "instance", play.loader = "fabric"
  PROVE  /\ After("client") = "java" /\ After("java") = "profile" /\ After("profile") = "main"
         /\ After("main") = "vlibs" /\ After("vlibs") = "natives" /\ After("natives") = "aindex"
         /\ After("assets") = "llibs" /\ After("llibs") = "run"
<1> DEFINE a == <<"client", "java">>
<1> DEFINE b == <<"profile">>
<1> DEFINE c == <<"main", "vlibs", "natives", "aindex", "assets", "llibs", "run">>
<1>1. a \in Seq(Places)
  BY DEF Places
<1>2. b \in Seq(Places)
  BY DEF Places
<1>3. c \in Seq(Places)
  BY DEF Places
<1>4. Steps = a \o b \o c
  BY <1>1, <1>2, <1>3, ConcatEmptySeq DEF Steps, OnlyFabric
<1>5. Len(a) = 2 /\ Len(b) = 1 /\ Len(c) = 7
  OBVIOUS
<1>6. /\ a[1] = "client" /\ a[2] = "java" /\ b[1] = "profile" /\ c[1] = "main"
      /\ c[2] = "vlibs" /\ c[3] = "natives" /\ c[4] = "aindex" /\ c[5] = "assets"
      /\ c[6] = "llibs" /\ c[7] = "run"
  OBVIOUS
<1> HIDE DEF a, b, c
<1>7. /\ DOMAIN Steps = 1..Len(a) + Len(b) + Len(c)
      /\ \A i \in 1..Len(a) : Steps[i] = a[i]
      /\ \A i \in 1..Len(b) : Steps[Len(a) + i] = b[i]
      /\ \A i \in 1..Len(c) : Steps[Len(a) + Len(b) + i] = c[i]
  BY <1>1, <1>2, <1>3, <1>4, Laid
<1>8. /\ DOMAIN Steps = 1..10 /\ Steps[1] = "client" /\ Steps[2] = "java" /\ Steps[3] = "profile"
      /\ Steps[4] = "main" /\ Steps[5] = "vlibs" /\ Steps[6] = "natives" /\ Steps[7] = "aindex"
      /\ Steps[8] = "assets" /\ Steps[9] = "llibs" /\ Steps[10] = "run"
  BY <1>5, <1>6, <1>7
<1>9. After("client") = "java"
  BY <1>8, AfterIs
<1>10. After("java") = "profile"
  BY <1>8, AfterIs
<1>11. After("profile") = "main"
  BY <1>8, AfterIs
<1>12. After("main") = "vlibs"
  BY <1>8, AfterIs
<1>13. After("vlibs") = "natives"
  BY <1>8, AfterIs
<1>14. After("natives") = "aindex"
  BY <1>8, AfterIs
<1>15. After("assets") = "llibs"
  BY <1>8, AfterIs
<1>16. After("llibs") = "run"
  BY <1>8, AfterIs
<1> QED
  BY <1>9, <1>10, <1>11, <1>12, <1>13, <1>14, <1>15, <1>16

LEMMA VanillaAfter ==
  ASSUME play.route = "instance", play.loader = "vanilla"
  PROVE  /\ After("client") = "java" /\ After("java") = "main" /\ After("main") = "vlibs"
         /\ After("vlibs") = "natives" /\ After("natives") = "aindex" /\ After("assets") = "llibs"
         /\ After("llibs") = "run"
<1> DEFINE a == <<"client", "java">>
<1> DEFINE b == <<>>
<1> DEFINE c == <<"main", "vlibs", "natives", "aindex", "assets", "llibs", "run">>
<1>1. a \in Seq(Places)
  BY DEF Places
<1>2. b \in Seq(Places)
  BY DEF Places
<1>3. c \in Seq(Places)
  BY DEF Places
<1>4. Steps = a \o b \o c
  BY <1>1, <1>2, <1>3, ConcatEmptySeq DEF Steps, OnlyFabric
<1>5. Len(a) = 2 /\ Len(b) = 0 /\ Len(c) = 7
  OBVIOUS
<1>6. /\ a[1] = "client" /\ a[2] = "java" /\ c[1] = "main" /\ c[2] = "vlibs"
      /\ c[3] = "natives" /\ c[4] = "aindex" /\ c[5] = "assets" /\ c[6] = "llibs"
      /\ c[7] = "run"
  OBVIOUS
<1> HIDE DEF a, b, c
<1>7. /\ DOMAIN Steps = 1..Len(a) + Len(b) + Len(c)
      /\ \A i \in 1..Len(a) : Steps[i] = a[i]
      /\ \A i \in 1..Len(b) : Steps[Len(a) + i] = b[i]
      /\ \A i \in 1..Len(c) : Steps[Len(a) + Len(b) + i] = c[i]
  BY <1>1, <1>2, <1>3, <1>4, Laid
<1>8. /\ DOMAIN Steps = 1..9 /\ Steps[1] = "client" /\ Steps[2] = "java" /\ Steps[3] = "main"
      /\ Steps[4] = "vlibs" /\ Steps[5] = "natives" /\ Steps[6] = "aindex" /\ Steps[7] = "assets"
      /\ Steps[8] = "llibs" /\ Steps[9] = "run"
  BY <1>5, <1>6, <1>7
<1>9. After("client") = "java"
  BY <1>8, AfterIs
<1>10. After("java") = "main"
  BY <1>8, AfterIs
<1>11. After("main") = "vlibs"
  BY <1>8, AfterIs
<1>12. After("vlibs") = "natives"
  BY <1>8, AfterIs
<1>13. After("natives") = "aindex"
  BY <1>8, AfterIs
<1>14. After("assets") = "llibs"
  BY <1>8, AfterIs
<1>15. After("llibs") = "run"
  BY <1>8, AfterIs
<1> QED
  BY <1>9, <1>10, <1>11, <1>12, <1>13, <1>14, <1>15

LEMMA ClientFabricAfter ==
  ASSUME play.route = "client", play.loader = "fabric"
  PROVE  /\ After("client") = "mapped" /\ After("djava") = "maps" /\ After("remap") = "vlibs"
         /\ After("vlibs") = "natives" /\ After("natives") = "aindex" /\ After("assets") = "java"
         /\ After("java") = "profile" /\ After("profile") = "main" /\ After("main") = "llibs"
         /\ After("llibs") = "run"
<1> DEFINE a == <<"client", "mapped", "djava", "maps", "tiny",
                 "remap", "vlibs", "natives", "aindex", "assets", "java">>
<1> DEFINE b == <<"profile">>
<1> DEFINE c == <<"main", "llibs", "run">>
<1>1. a \in Seq(Places)
  BY DEF Places
<1>2. b \in Seq(Places)
  BY DEF Places
<1>3. c \in Seq(Places)
  BY DEF Places
<1>4. Steps = a \o b \o c
  BY <1>1, <1>2, <1>3, ConcatEmptySeq DEF Steps, OnlyFabric
<1>5. Len(a) = 11 /\ Len(b) = 1 /\ Len(c) = 3
  OBVIOUS
<1>6. /\ a[1] = "client" /\ a[2] = "mapped" /\ a[3] = "djava" /\ a[4] = "maps"
      /\ a[5] = "tiny" /\ a[6] = "remap" /\ a[7] = "vlibs" /\ a[8] = "natives"
      /\ a[9] = "aindex" /\ a[10] = "assets" /\ a[11] = "java" /\ b[1] = "profile"
      /\ c[1] = "main" /\ c[2] = "llibs" /\ c[3] = "run"
  OBVIOUS
<1> HIDE DEF a, b, c
<1>7. /\ DOMAIN Steps = 1..Len(a) + Len(b) + Len(c)
      /\ \A i \in 1..Len(a) : Steps[i] = a[i]
      /\ \A i \in 1..Len(b) : Steps[Len(a) + i] = b[i]
      /\ \A i \in 1..Len(c) : Steps[Len(a) + Len(b) + i] = c[i]
  BY <1>1, <1>2, <1>3, <1>4, Laid
<1>8. /\ DOMAIN Steps = 1..15 /\ Steps[1] = "client" /\ Steps[2] = "mapped" /\ Steps[3] = "djava"
      /\ Steps[4] = "maps" /\ Steps[5] = "tiny" /\ Steps[6] = "remap" /\ Steps[7] = "vlibs"
      /\ Steps[8] = "natives" /\ Steps[9] = "aindex" /\ Steps[10] = "assets" /\ Steps[11] = "java"
      /\ Steps[12] = "profile" /\ Steps[13] = "main" /\ Steps[14] = "llibs" /\ Steps[15] = "run"
  BY <1>5, <1>6, <1>7
<1>9. After("client") = "mapped"
  BY <1>8, AfterIs
<1>10. After("djava") = "maps"
  BY <1>8, AfterIs
<1>11. After("remap") = "vlibs"
  BY <1>8, AfterIs
<1>12. After("vlibs") = "natives"
  BY <1>8, AfterIs
<1>13. After("natives") = "aindex"
  BY <1>8, AfterIs
<1>14. After("assets") = "java"
  BY <1>8, AfterIs
<1>15. After("java") = "profile"
  BY <1>8, AfterIs
<1>16. After("profile") = "main"
  BY <1>8, AfterIs
<1>17. After("main") = "llibs"
  BY <1>8, AfterIs
<1>18. After("llibs") = "run"
  BY <1>8, AfterIs
<1> QED
  BY <1>9, <1>10, <1>11, <1>12, <1>13, <1>14, <1>15, <1>16, <1>17, <1>18

LEMMA ClientVanillaAfter ==
  ASSUME play.route = "client", play.loader = "vanilla"
  PROVE  /\ After("client") = "mapped" /\ After("djava") = "maps" /\ After("remap") = "vlibs"
         /\ After("vlibs") = "natives" /\ After("natives") = "aindex" /\ After("assets") = "java"
         /\ After("java") = "main" /\ After("main") = "llibs" /\ After("llibs") = "run"
<1> DEFINE a == <<"client", "mapped", "djava", "maps", "tiny",
                 "remap", "vlibs", "natives", "aindex", "assets", "java">>
<1> DEFINE b == <<>>
<1> DEFINE c == <<"main", "llibs", "run">>
<1>1. a \in Seq(Places)
  BY DEF Places
<1>2. b \in Seq(Places)
  BY DEF Places
<1>3. c \in Seq(Places)
  BY DEF Places
<1>4. Steps = a \o b \o c
  BY <1>1, <1>2, <1>3, ConcatEmptySeq DEF Steps, OnlyFabric
<1>5. Len(a) = 11 /\ Len(b) = 0 /\ Len(c) = 3
  OBVIOUS
<1>6. /\ a[1] = "client" /\ a[2] = "mapped" /\ a[3] = "djava" /\ a[4] = "maps"
      /\ a[5] = "tiny" /\ a[6] = "remap" /\ a[7] = "vlibs" /\ a[8] = "natives"
      /\ a[9] = "aindex" /\ a[10] = "assets" /\ a[11] = "java" /\ c[1] = "main"
      /\ c[2] = "llibs" /\ c[3] = "run"
  OBVIOUS
<1> HIDE DEF a, b, c
<1>7. /\ DOMAIN Steps = 1..Len(a) + Len(b) + Len(c)
      /\ \A i \in 1..Len(a) : Steps[i] = a[i]
      /\ \A i \in 1..Len(b) : Steps[Len(a) + i] = b[i]
      /\ \A i \in 1..Len(c) : Steps[Len(a) + Len(b) + i] = c[i]
  BY <1>1, <1>2, <1>3, <1>4, Laid
<1>8. /\ DOMAIN Steps = 1..14 /\ Steps[1] = "client" /\ Steps[2] = "mapped" /\ Steps[3] = "djava"
      /\ Steps[4] = "maps" /\ Steps[5] = "tiny" /\ Steps[6] = "remap" /\ Steps[7] = "vlibs"
      /\ Steps[8] = "natives" /\ Steps[9] = "aindex" /\ Steps[10] = "assets" /\ Steps[11] = "java"
      /\ Steps[12] = "main" /\ Steps[13] = "llibs" /\ Steps[14] = "run"
  BY <1>5, <1>6, <1>7
<1>9. After("client") = "mapped"
  BY <1>8, AfterIs
<1>10. After("djava") = "maps"
  BY <1>8, AfterIs
<1>11. After("remap") = "vlibs"
  BY <1>8, AfterIs
<1>12. After("vlibs") = "natives"
  BY <1>8, AfterIs
<1>13. After("natives") = "aindex"
  BY <1>8, AfterIs
<1>14. After("assets") = "java"
  BY <1>8, AfterIs
<1>15. After("java") = "main"
  BY <1>8, AfterIs
<1>16. After("main") = "llibs"
  BY <1>8, AfterIs
<1>17. After("llibs") = "run"
  BY <1>8, AfterIs
<1> QED
  BY <1>9, <1>10, <1>11, <1>12, <1>13, <1>14, <1>15, <1>16, <1>17

-----------------------------------------------------------------------------
(* Where a start can be, and what may be written there.                    *)

Common == {"idle", "vjson", "client", "java", "main", "vlibs", "natives", "aindex",
           "assets", "llibs", "run"}
Boots == {"self", "selfzip", "swap", "swapped", "stamp", "chmod", "asset", "zip", "verify",
          "extract", "deps", "spawn", "started"}
\* The places that a play comes by.
Reached ==
    CASE play.route = "start"    -> {"idle"} \cup Boots
      [] play.route = "client"   -> Common \cup {"mapped", "djava", "maps", "tiny", "remap"}
                                     \cup (IF play.loader = "fabric" THEN {"profile"} ELSE {})
      [] play.route = "instance" -> Common \cup (IF play.loader = "fabric" THEN {"profile"} ELSE {})
                                     \cup (IF play.loader = "forge"
                                           THEN {"installer", "plibs", "process"} ELSE {})

\* Where Steps leads from p.
Onward(p) ==
    CASE p = "client"  -> IF play.route = "client" THEN "mapped" ELSE "java"
      [] p = "java"    -> IF play.loader = "fabric" THEN "profile"
                          ELSE IF play.loader = "forge" THEN "installer" ELSE "main"
      [] p = "djava"   -> "maps"
      [] p = "remap"   -> "vlibs"
      [] p = "profile" -> "main"
      [] p = "plibs"   -> "process"
      [] p = "process" -> "main"
      [] p = "main"    -> IF play.route = "client" THEN "llibs" ELSE "vlibs"
      [] p = "vlibs"   -> "natives"
      [] p = "natives" -> "aindex"
      [] p = "assets"  -> IF play.route = "client" THEN "java" ELSE "llibs"
      [] p = "llibs"   -> "run"

\* Where one step can lead.
Leads(p) == {p, "idle"} \cup
    CASE p = "idle"      -> {"vjson"}
      [] p = "vjson"     -> {"client"}
      [] p = "mapped"    -> {"djava", "vlibs"}
      [] p = "maps"      -> {"tiny"}
      [] p = "tiny"      -> {"remap"}
      [] p = "aindex"    -> {"assets"}
      [] p = "installer" -> {"plibs"}
      [] p = "run"       -> {}
      [] OTHER           -> {Onward(p)}

\* The files open or still to be dealt with at p.
Own(p) ==
    CASE p = "vjson"              -> {"vjson"}
      [] p = "client"             -> {"client"}
      [] p \in {"java", "djava"}    -> JavaFiles
      [] p = "remap"              -> {"mapped"}
      [] p \in {"vlibs", "natives"} -> VLibs
      [] p = "assets"             -> Assets
      [] p = "plibs"              -> PLibs
      [] p = "process"            -> {"out", PMain}
      [] p = "llibs"              -> LLibs
      [] p \in {"maps", "tiny", "aindex", "profile", "installer"} -> {p}
      [] p = "extract"            -> Parts
      [] OTHER                    -> {}

\* The files that the step at p may write.
Touched(p) ==
    CASE p = "idle"  -> {"vjson"}
      [] p = "vjson" -> {"vjson", "client"}
      [] OTHER       -> Own(p)

\* The files that GoodKept makes an exception of.
Renewed == Installed \cup {"vjson", "client", "profile", "jre"}

Deobfuscating == {"djava", "maps", "tiny", "remap"}

Loops == {"java", "djava", "vlibs", "natives", "assets", "plibs", "llibs", "extract"}

\* Where a start is, and what it has open there.
Control ==
    /\ pc \in Reached
    /\ open \subseteq Own(pc) /\ todo \subseteq Own(pc)
    /\ pc \notin Loops => todo = {}
    /\ pc \in {"java", "djava", "vlibs", "extract"} => open \subseteq todo
    /\ \A f \in open \ Renewed : file[f] # "good"
    /\ pc \in {"java", "djava"} /\ "java" \in todo => file["java"] # "good"
    /\ pc \in Deobfuscating => file["mapped"] = "absent"

\* A step of a launch of the game.
Game == TypeOK /\ Control /\ play.route # "start"

\* What one step may do to the disk.
Disk ==
    /\ play' = play /\ listed' \subseteq VLibs /\ faults' \in 0..play.faults
    /\ file' \in [Files -> Content] /\ cut' \subseteq Files
    /\ ignored' \subseteq Files /\ ignored \subseteq ignored'
    /\ \A f \in Files \ Touched(pc) : file'[f] = file[f] /\ (f \in cut => f \in cut')
    /\ \A f \in Files \ Renewed : file[f] = "good" => file'[f] = "good"

\* What every step of a launch does.
Kept == Disk /\ pc' \in Leads(pc) /\ TypeOK' /\ Control'

\* The places after client.jar, and those after a loader is installed.
Later == {"mapped", "djava", "maps", "tiny", "remap", "java", "profile", "installer", "plibs",
          "process", "main", "vlibs", "natives", "aindex", "assets", "llibs", "run"}

Patched == {"main", "vlibs", "natives", "aindex", "assets", "llibs", "run"}

\* A library is missing or the published one, or a crash came before its
\* digest was checked, or what came for it is not looked at, or it is being
\* fetched or about to be checked.
LibraryFits(f) ==
    \/ file[f] \in {"absent", "good"} \/ f \in cut \cup ignored
    \/ pc = "vlibs" /\ f \in todo
    \/ pc \in {"natives", "plibs", "llibs"} /\ f \in open
LibrariesFit == \A f \in VLibs : LibraryFits(f)

\* No jar that the processor will meet is something else altogether.
JarsIn ==
    /\ pc = "plibs" => \A f \in PLibs \ todo : file[f] # "junk"
    /\ pc = "process" => \A f \in PLibs : file[f] # "junk"

ClientIn == pc \in Later => file["client"] = "good"
InstallerIn ==
    play.loader = "forge" /\ pc \in Patched \cup {"plibs", "process"} => file["installer"] = "good"
PatchIn == play.loader = "forge" /\ pc \in Patched => file["out"] = "good"

GameInv == ClientIn /\ LibrariesFit /\ InstallerIn /\ PatchIn /\ JarsIn

-----------------------------------------------------------------------------
(* The places of a launch and the files of a step.                         *)

\* A play is a legal one.
LEMMA PlayIs ==
  ASSUME TypeOK
  PROVE  /\ play.route \in {"client", "instance", "start"}
         /\ play.loader \in {"vanilla", "fabric", "forge"}
         /\ play.route = "client" => play.loader # "forge"
         /\ play.faults \in Nat
         /\ faults \in Nat /\ faults <= play.faults
BY PlayAssumption DEF TypeOK

\* Where a launch can be, and which plays come by the places of a loader.
LEMMA GamePlaces ==
  ASSUME Game
  PROVE  /\ pc \in Common \cup Deobfuscating
                   \cup {"mapped", "profile", "installer", "plibs", "process"}
         /\ pc \in Deobfuscating \cup {"mapped"} => play.route = "client"
         /\ pc = "profile" => play.loader = "fabric"
         /\ pc \in {"installer", "plibs", "process"}
              => play.route = "instance" /\ play.loader = "forge"
BY PlayIs DEF Game, Control, Reached, Common, Deobfuscating

\* After agrees with Onward wherever a play comes by.
LEMMA AfterTable ==
  ASSUME Game
  PROVE  /\ After("client") = Onward("client") /\ After("java") = Onward("java")
         /\ play.route = "client" => After("djava") = "maps" /\ After("remap") = "vlibs"
         /\ play.loader = "fabric" => After("profile") = "main"
         /\ play.loader = "forge" => After("plibs") = "process" /\ After("process") = "main"
         /\ After("main") = Onward("main") /\ After("vlibs") = "natives"
         /\ After("natives") = "aindex" /\ After("assets") = Onward("assets")
         /\ After("llibs") = "run"
<1>1. play.route \in {"client", "instance"} /\ play.loader \in {"vanilla", "fabric", "forge"}
      /\ (play.route = "client" => play.loader # "forge")
  BY PlayIs DEF Game
<1>2. CASE play.route = "instance" /\ play.loader = "forge"
  BY <1>2, ForgeAfter DEF Onward
<1>3. CASE play.route = "instance" /\ play.loader = "fabric"
  BY <1>3, FabricAfter DEF Onward
<1>4. CASE play.route = "instance" /\ play.loader = "vanilla"
  BY <1>4, VanillaAfter DEF Onward
<1>5. CASE play.route = "client" /\ play.loader = "fabric"
  BY <1>5, ClientFabricAfter DEF Onward
<1>6. CASE play.route = "client" /\ play.loader = "vanilla"
  BY <1>6, ClientVanillaAfter DEF Onward
<1> QED
  BY <1>1, <1>2, <1>3, <1>4, <1>5, <1>6

\* Every place Steps leads to from a place of the launch is one of its places.
LEMMA OnwardReached ==
  ASSUME Game, pc \notin {"idle", "vjson", "mapped", "maps", "tiny", "aindex", "installer", "run"}
  PROVE  Onward(pc) \in Reached /\ Leads(pc) = {pc, "idle", Onward(pc)}
<1>1. Leads(pc) = {pc, "idle", Onward(pc)}
  BY DEF Leads
<1>2. pc \in Common \cup Deobfuscating \cup {"profile", "plibs", "process"}
      /\ (pc \in Deobfuscating => play.route = "client")
      /\ (pc = "profile" => play.loader = "fabric")
      /\ (pc \in {"plibs", "process"} => play.route = "instance" /\ play.loader = "forge")
  BY GamePlaces
<1>3. Onward(pc) \in Reached
  BY <1>2, PlayIs DEF Onward, Reached, Common, Deobfuscating, Game
<1> QED
  BY <1>1, <1>3

\* So is every place a step leads to.
LEMMA LeadsReached ==
  ASSUME Game, NEW q \in Leads(pc)
  PROVE  q \in Reached
<1>1. pc \in Reached /\ "idle" \in Reached
  BY PlayIs DEF Game, Control, Reached, Common
<1>2. CASE pc \notin {"idle", "vjson", "mapped", "maps", "tiny", "aindex", "installer", "run"}
  BY <1>1, <1>2, OnwardReached
<1>3. CASE pc \in {"idle", "vjson", "aindex", "run"}
  BY <1>1, <1>3, PlayIs DEF Leads, Reached, Common, Game
<1>4. CASE pc \in {"mapped", "maps", "tiny", "installer"}
  BY <1>1, <1>4, GamePlaces, PlayIs DEF Leads, Reached, Common, Deobfuscating, Game
<1> QED
  BY <1>2, <1>3, <1>4

\* The named files are none of the libraries and assets.
LEMMA Names ==
  /\ \A f \in VLibs \cup Assets \cup PLibs \cup LLibs : f \notin Named \cup Installed /\ f \in Files
  /\ Assets \cap (VLibs \cup PLibs \cup LLibs) = {}
  /\ PMain \in PLibs
  /\ Named \subseteq Files /\ Installed \subseteq Files
  /\ JavaFiles \subseteq Named
BY FileAssumption DEF Files, JavaFiles, Named

\* Own and Touched speak of files.
LEMMA OwnFiles ==
  \A p : Own(p) \subseteq Files /\ Touched(p) \subseteq Files /\ Own(p) \subseteq Touched(p)
<1> TAKE p
<1>1. Own(p) \subseteq Files
  BY Names DEF Own, Named, Installed
<1>2. Touched(p) \subseteq Files
  BY <1>1, Names DEF Touched, Named
<1>3. Own(p) \subseteq Touched(p)
  BY DEF Touched, Own
<1> QED
  BY <1>1, <1>2, <1>3

\* What opening, closing, a transfer and the work of a step are.
LEMMA OpenIs ==
  ASSUME TypeOK, NEW fs \in SUBSET Files, Open(fs)
  PROVE  /\ file' \in [Files -> Content]
         /\ \A f \in fs : file'[f] = "junk"
         /\ \A f \in Files \ fs : file'[f] = file[f]
         /\ open' = fs /\ cut' = cut \ fs
BY DEF TypeOK, Open, Content

LEMMA ClosedIs ==
  ASSUME TypeOK, NEW f \in Files, NEW c \in Content, NEW bad, Closed(f, c, bad)
  PROVE  /\ file' \in [Files -> Content]
         /\ file'[f] = c
         /\ \A g \in Files \ {f} : file'[g] = file[g]
         /\ open' = open \ {f} /\ faults' = faults + bad
BY DEF TypeOK, Closed

LEMMA TransferIs ==
  ASSUME TypeOK, NEW t \in Transfers
  PROVE  /\ t.ok \in BOOLEAN /\ t.now \in {"good", "junk", "part"} /\ t.now \in Content
         /\ faults + t.bad \in 0..play.faults
         /\ ~t.ok => t.now # "good"
         /\ t.ok => t.now # "part"
<1>1. /\ t.ok \in BOOLEAN /\ t.now \in {"good", "junk", "part"}
      /\ ~t.ok => t.now # "good"
      /\ t.ok => t.now # "part"
      /\ t.bad = 0 \/ (t.bad = 1 /\ faults < play.faults)
  <2>1. CASE t = [ok |-> TRUE, now |-> "good", bad |-> 0]
    BY <2>1
  <2>2. CASE faults < play.faults /\ t = [ok |-> TRUE, now |-> "junk", bad |-> 1]
    BY <2>2
  <2>3. CASE faults < play.faults /\ t = [ok |-> FALSE, now |-> "part", bad |-> 1]
    BY <2>3
  <2>4. CASE faults < play.faults /\ t = [ok |-> FALSE, now |-> "junk", bad |-> 1]
    BY <2>4
  <2> QED
    BY <2>1, <2>2, <2>3, <2>4 DEF Transfers
<1>2. faults + t.bad \in 0..play.faults
  BY <1>1, PlayIs
<1> QED
  BY <1>1, <1>2 DEF Content

LEMMA PoolTransferIs ==
  ASSUME TypeOK, NEW t \in PoolTransfers
  PROVE  /\ t.now \in {"good", "junk", "absent"} /\ t.now \in Content
         /\ faults + t.bad \in 0..play.faults
<1>1. PICK u \in Transfers : t = [u EXCEPT !.now = IF u.ok THEN u.now ELSE "absent"]
  BY DEF PoolTransfers
<1>2. DOMAIN u = {"ok", "now", "bad"} /\ (u.ok => u.now \in {"good", "junk"})
  <2>1. CASE u = [ok |-> TRUE, now |-> "good", bad |-> 0]
    BY <2>1
  <2>2. CASE u = [ok |-> TRUE, now |-> "junk", bad |-> 1]
    BY <2>2
  <2>3. CASE u = [ok |-> FALSE, now |-> "part", bad |-> 1]
    BY <2>3
  <2>4. CASE u = [ok |-> FALSE, now |-> "junk", bad |-> 1]
    BY <2>4
  <2> QED
    BY <2>1, <2>2, <2>3, <2>4 DEF Transfers
<1>3. t.now = (IF u.ok THEN u.now ELSE "absent") /\ t.bad = u.bad
  BY <1>1, <1>2
<1> QED
  BY <1>2, <1>3, TransferIs DEF Content

\* The work of a step is among the files it owns; most have none.
LEMMA WorkIs ==
  ASSUME TypeOK, NEW s
  PROVE  /\ Work(s) \subseteq Own(s)
         /\ s \notin {"natives", "plibs", "llibs"} => Work(s) = {}
         /\ s = "plibs" => Work(s) = PLibs
BY FileAssumption DEF TypeOK, Work, Own, LoaderLibs

-----------------------------------------------------------------------------
(* What a step does to the disk, and where it goes.                        *)

\* Nothing is written.
LEMMA DiskSame ==
  ASSUME Game, UNCHANGED <<file, play, listed, ignored, cut>>, faults' \in 0..play.faults
  PROVE  Disk
BY DEF Game, TypeOK, Disk

\* Files are opened that were not good, or are renewed.
LEMMA DiskOpen ==
  ASSUME Game, NEW fs \in SUBSET Touched(pc), Open(fs),
         \A f \in fs \ Renewed : file[f] # "good",
         UNCHANGED <<play, listed, ignored, faults>>
  PROVE  /\ Disk /\ open' = fs
         /\ \A f \in fs : file'[f] = "junk"
         /\ \A f \in Files \ fs : file'[f] = file[f]
<1>1. fs \in SUBSET Files
  BY OwnFiles
<1>2. TypeOK
  BY DEF Game
<1>3. /\ file' \in [Files -> Content]
      /\ \A f \in fs : file'[f] = "junk"
      /\ \A f \in Files \ fs : file'[f] = file[f]
      /\ open' = fs /\ cut' = cut \ fs
  BY <1>1, <1>2, OpenIs
<1> QED
  BY <1>1, <1>2, <1>3 DEF Disk, TypeOK

\* A transfer or a tool comes to its end: its file was open, and so not good.
LEMMA DiskClosed ==
  ASSUME Game, NEW f \in Own(pc), f \in open \cup Renewed, NEW c \in Content, NEW bad,
         Closed(f, c, bad), faults + bad \in 0..play.faults, UNCHANGED <<play, listed>>,
         cut' = cut \/ cut' = cut \cup {f},
         ignored' = ignored \/ ignored' = ignored \cup {f}
  PROVE  /\ Disk /\ open' = open \ {f} /\ file'[f] = c
         /\ \A g \in Files \ {f} : file'[g] = file[g]
<1>1. TypeOK /\ f \in Files /\ f \in Touched(pc) /\ (f \notin Renewed => file[f] # "good")
  BY OwnFiles DEF Game, TypeOK, Control
<1>2. /\ file' \in [Files -> Content]
      /\ file'[f] = c
      /\ \A g \in Files \ {f} : file'[g] = file[g]
      /\ open' = open \ {f} /\ faults' = faults + bad
  BY <1>1, ClosedIs
<1> QED
  BY <1>1, <1>2 DEF Disk, TypeOK

\* The launch goes on to another step, or ends.
LEMMA Leaves ==
  ASSUME Game, Disk, NEW q \in Leads(pc), q # "vjson",
         Go(q) \/ (q = "idle" /\ Fail), open' = {},
         q \in Deobfuscating => file'["mapped"] = "absent"
  PROVE  Kept
<1>1. TypeOK /\ q \in Reached /\ pc' = q
  BY LeadsReached DEF Game, Go, Fail
<1>2. /\ todo' \subseteq Own(q)
      /\ q \in {"java", "djava", "vlibs", "extract"} \/ q \notin Loops => todo' = {}
  BY <1>1, WorkIs DEF Go, Fail, Loops
<1>3. Reached' = Reached
  BY DEF Disk, Reached
<1>4. Control'
  BY <1>1, <1>2, <1>3 DEF Control
<1>5. q \in Common \cup Deobfuscating \cup {"mapped", "profile", "installer", "plibs", "process"}
  BY <1>1, PlayIs DEF Reached, Game, Common, Deobfuscating
<1>6. TypeOK'
  BY <1>1, <1>2, <1>5, OwnFiles DEF TypeOK, Disk, Common, Deobfuscating
<1> QED
  BY <1>1, <1>4, <1>6 DEF Kept

\* It stays where it is.
LEMMA Stays ==
  ASSUME Game, Disk, pc' = pc, open' \subseteq Own(pc), todo' \subseteq Own(pc),
         pc \notin Loops => todo' = {},
         pc \in {"java", "djava", "vlibs"} => open' \subseteq todo',
         \A f \in open' \ Renewed : file'[f] # "good",
         pc \in {"java", "djava"} /\ "java" \in todo' => file'["java"] # "good",
         pc \in Deobfuscating => file'["mapped"] = "absent"
  PROVE  Kept
<1>1. TypeOK /\ pc \in Reached /\ pc # "extract" /\ pc \in Leads(pc)
  BY GamePlaces DEF Game, Control, Leads, Common, Deobfuscating
<1>2. Reached' = Reached
  BY DEF Disk, Reached
<1>3. Control'
  BY <1>1, <1>2 DEF Control
<1>4. TypeOK'
  BY <1>1, OwnFiles DEF TypeOK, Disk
<1> QED
  BY <1>1, <1>3, <1>4 DEF Kept

-----------------------------------------------------------------------------
(* The steps of a launch, place by place.                                  *)

\* After is one of the places a step leads to.
LEMMA AfterIn ==
  ASSUME Game, pc \in {"client", "java", "djava", "remap", "profile", "plibs", "process",
                       "main", "vlibs", "natives", "assets", "llibs"}
  PROVE  /\ After(pc) = Onward(pc) /\ After(pc) \in Leads(pc)
         /\ After(pc) \notin {"vjson", "djava", "tiny", "remap"}
         /\ After(pc) = "maps" => pc = "djava"
<1>1. /\ pc \in {"djava", "remap"} => play.route = "client"
      /\ pc = "profile" => play.loader = "fabric"
      /\ pc \in {"plibs", "process"} => play.loader = "forge"
  BY GamePlaces DEF Deobfuscating
<1>2. After(pc) = Onward(pc)
  BY <1>1, AfterTable DEF Onward
<1>3. Onward(pc) \in Leads(pc)
  BY OnwardReached
<1>4. Onward(pc) \notin {"vjson", "djava", "tiny", "remap"} /\ (Onward(pc) = "maps" => pc = "djava")
  BY DEF Onward
<1> QED
  BY <1>2, <1>3, <1>4

\* One more fault still fits.
LEMMA GameFaults ==
  ASSUME Game
  PROVE  /\ faults \in 0..play.faults
         /\ faults < play.faults => faults + 1 \in 0..play.faults
         /\ faults + 0 \in 0..play.faults
BY PlayIs DEF Game, TypeOK

\* Each step of a launch, place by place: what it may write, where it leads, and
\* the part of the invariant that only it can disturb.
LEMMA LaunchKept ==
  ASSUME Game, Launch
  PROVE  Kept
<1>1. /\ pc = "idle" /\ pc' = "vjson" /\ Open({"vjson"})
      /\ UNCHANGED <<todo, play, listed, ignored, faults>>
  BY DEF Launch
<1>2. Touched(pc) = {"vjson"} /\ Own(pc) = {} /\ Own("vjson") = {"vjson"} /\ "vjson" \in Renewed
  BY <1>1 DEF Touched, Own, Renewed
<1>3. Disk /\ open' = {"vjson"}
  BY <1>1, <1>2, DiskOpen
<1>4. "vjson" \in Leads(pc) /\ "vjson" \in Reached
  BY <1>1, LeadsReached DEF Leads
<1>5. Reached' = Reached
  BY <1>3 DEF Disk, Reached
<1>6. todo = {}
  BY <1>1 DEF Loops, Game, Control
<1>7. Control'
  BY <1>1, <1>2, <1>3, <1>4, <1>5, <1>6 DEF Control, Deobfuscating, Loops
<1>8. TypeOK'
  BY <1>1, <1>3, <1>6, OwnFiles, Names DEF TypeOK, Disk, Game, Named
<1> QED
  BY <1>1, <1>3, <1>4, <1>7, <1>8 DEF Kept

LEMMA VersionJsonKept ==
  ASSUME Game, VersionJson
  PROVE  Kept
<1>1. pc = "vjson" /\ cut' = cut \ {"client"} /\ play' = play /\ ignored' = ignored
  BY DEF VersionJson
<1>2. PICK t \in Transfers :
         /\ faults' = faults + t.bad
         /\ \/ /\ t.now # "good"
               /\ file' = [file EXCEPT !["vjson"] = t.now]
               /\ open' = {} /\ Fail /\ UNCHANGED listed
            \/ /\ t.now # "junk"
               /\ file' = [file EXCEPT !["vjson"] = t.now, !["client"] = "junk"]
               /\ open' = {"client"} /\ pc' = "client"
               /\ listed' \in IF t.now = "good" THEN {VLibs} ELSE SUBSET VLibs
               /\ UNCHANGED todo
  BY DEF VersionJson
<1>3. /\ TypeOK /\ t.now \in Content /\ faults' \in 0..play.faults
      /\ "vjson" \in Files /\ "client" \in Files
  BY <1>2, TransferIs, Names DEF Game, Named
<1>4. Touched(pc) = {"vjson", "client"} /\ {"vjson", "client"} \subseteq Renewed
      /\ Own(pc) = {"vjson"} /\ Own("client") = {"client"}
  BY <1>1 DEF Touched, Renewed, Own
<1>5. CASE /\ file' = [file EXCEPT !["vjson"] = t.now]
           /\ open' = {} /\ Fail /\ UNCHANGED listed
  <2>1. Disk
    BY <1>1, <1>3, <1>4, <1>5 DEF Disk, TypeOK
  <2>2. "idle" \in Leads(pc)
    BY DEF Leads
  <2> QED
    BY <1>5, <2>1, <2>2, Leaves DEF Deobfuscating
<1>6. CASE /\ file' = [file EXCEPT !["vjson"] = t.now, !["client"] = "junk"]
           /\ open' = {"client"} /\ pc' = "client"
           /\ listed' \in IF t.now = "good" THEN {VLibs} ELSE SUBSET VLibs
           /\ UNCHANGED todo
  <2>1. Disk
    BY <1>1, <1>3, <1>4, <1>6 DEF Disk, TypeOK, Content
  <2>2. "client" \in Leads(pc) /\ "client" \in Reached
    BY <1>1, LeadsReached DEF Leads
  <2>3. Reached' = Reached
    BY <2>1 DEF Disk, Reached
  <2>4. todo' = {}
    BY <1>1, <1>6 DEF Game, Control, Loops
  <2>5. Control'
    BY <1>4, <1>6, <2>2, <2>3, <2>4 DEF Control, Deobfuscating, Loops
  <2>6. TypeOK'
    BY <1>3, <1>6, <2>1, <2>4 DEF TypeOK, Disk
  <2> QED
    BY <1>6, <2>1, <2>2, <2>5, <2>6 DEF Kept
<1> QED
  BY <1>2, <1>5, <1>6

\* Beyond client.jar there is only the published one.
LEMMA ClientJarKept ==
  ASSUME Game, ClientJar
  PROVE  Kept /\ (pc' \in Later => file'["client"] = "good")
<1>1. pc = "client" /\ UNCHANGED <<play, listed, ignored, cut>> /\ TypeOK
  BY DEF ClientJar, Game
<1>2. Own(pc) = {"client"} /\ "client" \in Renewed /\ open \subseteq {"client"}
  BY <1>1 DEF Own, Renewed, Game, Control
<1>3. PICK t \in Transfers :
         IF t.now = "good"
         THEN Closed("client", "good", t.bad) /\ Go(After("client"))
         ELSE Closed("client", "absent", t.bad) /\ Fail
  BY DEF ClientJar
<1>4. faults + t.bad \in 0..play.faults /\ "good" \in Content /\ "absent" \in Content
  BY <1>1, TransferIs DEF Content
<1>5. CASE Closed("client", "good", t.bad) /\ Go(After("client"))
  <2>1. Disk /\ open' = open \ {"client"} /\ file'["client"] = "good"
    BY <1>1, <1>2, <1>4, <1>5, DiskClosed
  <2>2. Kept
    BY <1>1, <1>2, <1>5, <2>1, AfterIn, Leaves DEF Deobfuscating
  <2> QED
    BY <2>1, <2>2
<1>6. CASE Closed("client", "absent", t.bad) /\ Fail
  <2>1. Disk /\ open' = open \ {"client"}
    BY <1>1, <1>2, <1>4, <1>6, DiskClosed
  <2>2. Kept
    BY <1>2, <1>6, <2>1, Leaves DEF Deobfuscating, Leads
  <2> QED
    BY <1>6, <2>2 DEF Fail, Later
<1> QED
  BY <1>3, <1>5, <1>6

\* Steps that leave the disk alone and go on, or end the launch.
LEMMA GoesOn ==
  ASSUME Game, UNCHANGED <<file, open, play, listed, ignored, faults, cut>>, open = {},
         NEW q \in Leads(pc), q # "vjson", Go(q) \/ (q = "idle" /\ Fail),
         q \in Deobfuscating => file["mapped"] = "absent"
  PROVE  Kept
<1>1. Disk
  BY DiskSame, GameFaults
<1> QED
  BY <1>1, Leaves

LEMMA JavaKept ==
  ASSUME Game, JavaInstalled \/ JavaMissing \/ \E f \in JavaFiles : JavaFetch(f) \/ JavaFetched(f)
  PROVE  Kept
<1>1. pc \in {"java", "djava"} /\ TypeOK
  BY DEF JavaInstalled, JavaMissing, JavaFetch, JavaFetched, AtJava, Game
<1>2. /\ Own(pc) = {"java", "jre"} /\ JavaFiles = {"java", "jre"}
      /\ "jre" \in Renewed /\ "java" \notin Renewed /\ Touched(pc) = {"java", "jre"}
  BY <1>1 DEF Own, JavaFiles, Renewed, Installed, Parts, Touched
<1>3. /\ open \subseteq todo /\ todo \subseteq {"java", "jre"}
      /\ \A f \in open \ Renewed : file[f] # "good"
      /\ "java" \in todo => file["java"] # "good"
      /\ pc = "djava" => file["mapped"] = "absent"
      /\ pc \in Deobfuscating => file["mapped"] = "absent"
      /\ pc \in Loops
  BY <1>1, <1>2 DEF Game, Control, Deobfuscating, Loops
<1>4. "java" \in Files /\ "jre" \in Files /\ "mapped" \in Files \ Touched(pc)
  BY <1>2, Names DEF Named
<1>5. /\ After(pc) \in Leads(pc) /\ After(pc) # "vjson"
      /\ After(pc) \in Deobfuscating => pc = "djava"
      /\ "idle" \in Leads(pc) /\ "idle" \notin Deobfuscating
  BY <1>1, AfterIn DEF Deobfuscating, Leads
<1>6. CASE JavaInstalled
  <2>1. /\ todo = {} /\ open = {} /\ Go(After(pc))
        /\ UNCHANGED <<file, open, play, listed, ignored, faults, cut>>
    BY <1>3, <1>6 DEF JavaInstalled
  <2> QED
    BY <1>3, <1>5, <2>1, GoesOn
<1>7. CASE JavaMissing
  <2>1. /\ todo = {} /\ open = {} /\ file["java"] = "absent"
        /\ UNCHANGED <<file, open, play, listed, ignored, cut>>
        /\ \/ todo' = {"java", "jre"} /\ UNCHANGED <<pc, faults>>
           \/ faults < play.faults /\ faults' = faults + 1 /\ Fail
    BY <1>2, <1>3, <1>7 DEF JavaMissing, Missing
  <2>2. Disk
    BY <2>1, DiskSame, GameFaults
  <2>3. CASE todo' = {"java", "jre"} /\ UNCHANGED <<pc, faults>>
    BY <1>2, <1>3, <2>1, <2>2, <2>3, Stays
  <2>4. CASE Fail
    BY <1>5, <2>1, <2>2, <2>4, Leaves
  <2> QED
    BY <2>1, <2>3, <2>4
<1>8. ASSUME NEW f \in JavaFiles, JavaFetch(f)
      PROVE  Kept
  <2>1. f \in todo /\ Open({f}) /\ UNCHANGED <<pc, todo, play, listed, ignored, faults>>
    BY <1>8 DEF JavaFetch
  <2>2. {f} \in SUBSET Touched(pc) /\ \A g \in {f} \ Renewed : file[g] # "good"
    BY <1>2, <1>3, <1>8, <2>1
  <2>3. /\ Disk /\ open' = {f} /\ file'[f] = "junk"
        /\ \A g \in Files \ {f} : file'[g] = file[g]
    BY <2>1, <2>2, DiskOpen
  <2>4. "java" \in todo' => file'["java"] # "good"
    BY <1>3, <1>4, <2>1, <2>3
  <2>5. pc \in Deobfuscating => file'["mapped"] = "absent"
    BY <1>2, <1>3, <1>4, <1>8, <2>3
  <2> QED
    BY <1>2, <1>3, <1>8, <2>1, <2>3, <2>4, <2>5, Stays
<1>9. ASSUME NEW f \in JavaFiles, JavaFetched(f)
      PROVE  Kept
  <2>1. /\ open = {f}
        /\ \E t \in Transfers : Closed(f, t.now, t.bad)
        /\ IF todo = {f} THEN Go(After(pc)) ELSE todo' = todo \ {f} /\ UNCHANGED pc
        /\ UNCHANGED <<play, listed, ignored, cut>>
    BY <1>9 DEF JavaFetched
  <2>2. PICK t \in Transfers : Closed(f, t.now, t.bad)
    BY <2>1
  <2>3. t.now \in Content /\ faults + t.bad \in 0..play.faults
    BY <1>1, TransferIs
  <2>4. /\ Disk /\ open' = {}
        /\ \A g \in Files \ {f} : file'[g] = file[g]
    BY <1>2, <1>9, <2>1, <2>2, <2>3, DiskClosed
  <2>5. pc \in Deobfuscating => file'["mapped"] = "absent"
    BY <1>2, <1>3, <1>4, <1>9, <2>4
  <2>6. CASE todo = {f}
    BY <1>5, <2>1, <2>4, <2>5, <2>6, Leaves DEF Deobfuscating
  <2>7. CASE todo # {f}
    <3>1. todo' = todo \ {f} /\ pc' = pc /\ ("java" \in todo' => file'["java"] # "good")
      BY <1>3, <1>4, <2>1, <2>4, <2>7
    <3> QED
      BY <1>2, <1>3, <2>4, <2>5, <3>1, Stays
  <2> QED
    BY <2>6, <2>7
<1> QED
  BY <1>6, <1>7, <1>8, <1>9

\* The one file that a step wants is opened.
LEMMA OpensOne ==
  ASSUME Game, NEW f \in Own(pc), Open({f}), f \in Renewed \/ file[f] # "good", f # "mapped",
         pc \notin {"java", "djava", "vlibs"}, UNCHANGED <<pc, todo, play, listed, ignored, faults>>
  PROVE  /\ Kept /\ Disk /\ open' = {f} /\ file'[f] = "junk"
         /\ \A g \in Files \ {f} : file'[g] = file[g]
<1>1. f \in Files /\ {f} \in SUBSET Touched(pc) /\ "mapped" \in Files
  BY OwnFiles, Names DEF Named
<1>2. /\ Disk /\ open' = {f} /\ file'[f] = "junk"
      /\ \A g \in Files \ {f} : file'[g] = file[g]
  BY <1>1, DiskOpen
<1> QED
  BY <1>1, <1>2, Stays DEF Game, Control

\* A transfer comes to its end, and the step has more to do.
LEMMA LandsOne ==
  ASSUME Game, NEW f \in open, NEW c \in Content, NEW bad, Closed(f, c, bad),
         faults + bad \in 0..play.faults, UNCHANGED <<pc, play, listed, cut>>, f # "mapped",
         ignored' = ignored \/ ignored' = ignored \cup {f},
         todo' = todo \/ (todo' = todo \ {f} /\ pc \in Loops \ {"vlibs"}),
         pc \notin {"java", "djava"}
  PROVE  /\ Kept /\ Disk /\ open' = open \ {f} /\ file'[f] = c
         /\ \A g \in Files \ {f} : file'[g] = file[g]
<1>1. f \in Own(pc) /\ f \in Files /\ "mapped" \in Files /\ open \subseteq Own(pc)
  BY OwnFiles, Names DEF Named, Game, Control
<1>2. /\ Disk /\ open' = open \ {f} /\ file'[f] = c
      /\ \A g \in Files \ {f} : file'[g] = file[g]
  BY <1>1, DiskClosed
<1>3. \A g \in open' \ Renewed : g \in Files /\ file'[g] # "good"
  BY <1>1, <1>2, OwnFiles DEF Game, Control
<1> QED
  BY <1>1, <1>2, <1>3, Stays DEF Game, Control

\* A transfer or a tool comes to its end, and with it the step or the launch.
LEMMA LandsLast ==
  ASSUME Game, NEW f, open = {f}, NEW c \in Content, NEW bad, Closed(f, c, bad),
         faults + bad \in 0..play.faults, UNCHANGED <<play, listed, ignored>>,
         cut' = cut \/ cut' = cut \cup {f},
         NEW q \in Leads(pc), q # "vjson",
         q \notin Deobfuscating \/ (pc \in Deobfuscating /\ f # "mapped"),
         Go(q) \/ (q = "idle" /\ Fail)
  PROVE  /\ Kept /\ Disk /\ file'[f] = c
         /\ \A g \in Files \ {f} : file'[g] = file[g]
<1>1. f \in Own(pc) /\ f \in Files /\ "mapped" \in Files /\ f \in open
  BY OwnFiles, Names DEF Named, Game, Control
<1>2. /\ Disk /\ open' = open \ {f} /\ file'[f] = c
      /\ \A g \in Files \ {f} : file'[g] = file[g]
  BY <1>1, DiskClosed
<1>3. q \in Deobfuscating => file'["mapped"] = "absent"
  BY <1>1, <1>2 DEF Game, Control
<1>4. open' = {}
  BY <1>2
<1>5. Kept
  BY <1>2, <1>3, <1>4, Leaves DEF Deobfuscating
<1> QED
  BY <1>2, <1>5

LEMMA ToolFailsKept ==
  ASSUME Game, NEW f, open = {f}, NEW damaged, ToolFails(f, damaged), Fail,
         UNCHANGED <<play, listed, ignored>>
  PROVE  /\ Kept /\ Disk
         /\ \A g \in Files \ {f} : file'[g] = file[g]
<1>1. f \in Files /\ TypeOK
  BY OwnFiles DEF Game, Control, TypeOK
<1>2. PICK c \in {file[f], "part"} : Closed(f, c, IF damaged THEN 0 ELSE 1)
  BY DEF ToolFails
<1>3. faults + (IF damaged THEN 0 ELSE 1) \in 0..play.faults
  BY GameFaults DEF ToolFails
<1>4. c \in Content /\ cut' = cut \cup {f}
  BY <1>1 DEF TypeOK, Content, ToolFails
<1>5. "idle" \in Leads(pc)
  BY DEF Leads
<1> QED
  BY <1>2, <1>3, <1>4, <1>5, LandsLast DEF Deobfuscating

\* A tool is started on a file that is not what it will be.
LEMMA ToolStarts ==
  ASSUME Game, NEW s, NEW f, StartTool(s, f), f \in Own(s), file[f] # "good",
         s \notin {"java", "djava", "vlibs"}
  PROVE  Kept /\ Disk /\ file' = file
<1>1. pc = s /\ open' = {f} /\ UNCHANGED <<file, pc, todo, play, listed, ignored, faults, cut>>
  BY DEF StartTool
<1>2. Disk
  BY <1>1, DiskSame, GameFaults
<1>3. Kept
  BY <1>1, <1>2, Stays DEF Game, Control
<1> QED
  BY <1>1, <1>2, <1>3

LEMMA DeobfuscationKept ==
  ASSUME Game, \/ MappedCached \/ Mappings \/ MappingsFetched
               \/ TinyCached \/ Convert \/ Converted \/ Remap \/ Remapped
  PROVE  Kept
<1>1. TypeOK /\ (pc \in Deobfuscating => file["mapped"] = "absent")
      /\ "mapped" \in Files /\ "idle" \in Leads(pc) /\ "good" \in Content /\ "part" \in Content
  BY Names DEF Game, Control, Named, Leads, Content
<1>2. CASE MappedCached
  <2>1. /\ pc = "mapped" /\ UNCHANGED <<file, open, play, listed, ignored, faults, cut>>
        /\ Go(IF file["mapped"] = "absent" THEN "djava" ELSE After("remap"))
    BY <1>2 DEF MappedCached, Missing
  <2>2. After("remap") = "vlibs" /\ Leads(pc) = {"mapped", "idle", "djava", "vlibs"}
    BY <2>1, GamePlaces, AfterTable DEF Leads
  <2>3. open = {}
    BY <2>1 DEF Own, Game, Control
  <2> QED
    BY <2>1, <2>2, <2>3, GoesOn DEF Deobfuscating
<1>3. ASSUME pc = "maps"
      PROVE  /\ Own(pc) = {"maps"} /\ "tiny" \in Leads(pc) /\ pc \in Deobfuscating
             /\ pc \notin Loops
  BY <1>3 DEF Own, Leads, Deobfuscating, Loops
<1>4. CASE Mappings
  <2>1. pc = "maps" /\ open = {} /\ UNCHANGED <<play, listed, ignored, faults>>
    BY <1>4 DEF Mappings
  <2>2. CASE file["maps"] = "absent"
    BY <1>3, <1>4, <2>1, <2>2, OpensOne DEF Mappings, Missing
  <2>3. CASE file["maps"] # "absent"
    BY <1>1, <1>3, <1>4, <2>1, <2>3, GoesOn DEF Mappings, Missing
  <2> QED
    BY <2>2, <2>3
<1>5. CASE MappingsFetched
  <2>1. /\ pc = "maps" /\ open = {"maps"} /\ UNCHANGED <<play, listed, ignored, cut>>
    BY <1>5 DEF MappingsFetched
  <2>2. PICK t \in Transfers : Closed("maps", t.now, t.bad) /\ IF t.ok THEN Go("tiny") ELSE Fail
    BY <1>5 DEF MappingsFetched
  <2>3. t.now \in Content /\ faults + t.bad \in 0..play.faults
    BY <1>1, TransferIs
  <2>4. CASE Go("tiny")
    BY <1>3, <2>1, <2>2, <2>3, <2>4, LandsLast
  <2>5. CASE Fail
    BY <1>1, <1>3, <2>1, <2>2, <2>3, <2>5, LandsLast
  <2> QED
    BY <2>2, <2>4, <2>5
<1>6. ASSUME pc = "tiny"
      PROVE  Own(pc) = {"tiny"} /\ "remap" \in Leads(pc) /\ pc \in Deobfuscating
  BY <1>6 DEF Own, Leads, Deobfuscating
<1>7. CASE TinyCached
  BY <1>1, <1>6, <1>7, GoesOn DEF TinyCached
<1>8. CASE Convert
  <2>1. pc = "tiny" /\ StartTool("tiny", "tiny") /\ file["tiny"] = "absent"
    BY <1>8 DEF Convert, StartTool, Missing
  <2> QED
    BY <1>6, <2>1, ToolStarts
<1>9. CASE Converted
  <2>1. pc = "tiny" /\ open = {"tiny"} /\ UNCHANGED <<play, listed, ignored>>
    BY <1>9 DEF Converted
  <2>2. CASE /\ Closed("tiny", "good", 0) \/ Closed("tiny", "part", 0)
             /\ Go("remap") /\ UNCHANGED cut
    BY <1>1, <1>6, <2>1, <2>2, LandsLast, GameFaults
  <2>3. CASE Fail /\ \E damaged : ToolFails("tiny", damaged)
    BY <2>1, <2>3, ToolFailsKept
  <2> QED
    BY <1>9, <2>2, <2>3 DEF Converted
<1>10. ASSUME pc = "remap"
       PROVE  /\ Own(pc) = {"mapped"} /\ After("remap") \in Leads(pc) /\ pc \in Deobfuscating
              /\ After("remap") \notin Deobfuscating \cup {"vjson"}
  BY <1>10, AfterIn DEF Own, Leads, Deobfuscating
<1>11. CASE Remap
  <2>1. pc = "remap" /\ StartTool("remap", "mapped")
    BY <1>11 DEF Remap, StartTool
  <2> QED
    BY <1>1, <1>10, <2>1, ToolStarts
<1>12. CASE Remapped
  <2>1. pc = "remap" /\ open = {"mapped"} /\ UNCHANGED <<play, listed, ignored>>
    BY <1>12 DEF Remapped
  <2>2. CASE /\ Closed("mapped", "good", 0) \/ Closed("mapped", "part", 0)
             /\ Go(After("remap")) /\ UNCHANGED cut
    BY <1>1, <1>10, <2>1, <2>2, LandsLast, GameFaults
  <2>3. CASE Fail /\ \E damaged : ToolFails("mapped", damaged)
    BY <2>1, <2>3, ToolFailsKept
  <2> QED
    BY <1>12, <2>2, <2>3 DEF Remapped
<1> QED
  BY <1>2, <1>4, <1>5, <1>7, <1>8, <1>9, <1>11, <1>12

\* The missing libraries are opened, those that are there fit already.
LEMMA PoolStartKept ==
  ASSUME Game, NEW s \in {"vlibs", "assets"}, NEW wanted \in SUBSET Own(s), PoolStart(s, wanted)
  PROVE  /\ Kept
         /\ s = "vlibs" /\ LibrariesFit => LibrariesFit'
<1>1. pc = s /\ open = {} /\ todo = {} /\ UNCHANGED <<play, listed, ignored, faults>>
  BY DEF PoolStart
<1> DEFINE jobs == {f \in wanted : Missing(f)}
<1>2. /\ jobs \subseteq Own(pc) /\ Own(pc) \subseteq Files /\ Own(pc) = Touched(pc)
      /\ \A f \in jobs : file[f] # "good"
  BY <1>1, OwnFiles DEF Missing, Touched
<1>3. "mapped" \notin Own(pc) /\ pc \notin Deobfuscating /\ pc \in Loops
  BY <1>1, Names DEF Own, Named, Deobfuscating, Loops
<1>4. CASE jobs = {}
  <2>1. Go(After(pc)) /\ UNCHANGED <<file, open, cut>>
    BY <1>1, <1>4 DEF PoolStart
  <2>2. Kept
    BY <1>1, <2>1, AfterIn, GoesOn DEF Deobfuscating
  <2>3. LibrariesFit => LibrariesFit'
    BY <1>1, <2>1 DEF LibrariesFit, LibraryFits
  <2> QED
    BY <2>2, <2>3
<1>5. CASE jobs # {}
  <2>1. Open(jobs) /\ todo' = jobs /\ pc' = pc
    BY <1>1, <1>5 DEF PoolStart
  <2> HIDE DEF jobs
  <2>2. /\ Disk /\ open' = jobs
        /\ \A f \in jobs : file'[f] = "junk"
        /\ \A f \in Files \ jobs : file'[f] = file[f]
    BY <1>1, <1>2, <2>1, DiskOpen
  <2>3. Kept
    BY <1>1, <1>2, <1>3, <2>1, <2>2, Stays
  <2>4. cut' = cut \ jobs
    BY <2>1 DEF Open
  <2>5. ASSUME s = "vlibs", LibrariesFit
        PROVE  LibrariesFit'
    <3>1. ASSUME NEW f \in VLibs PROVE LibraryFits(f)'
      <4>1. CASE f \in jobs
        BY <1>1, <2>1, <2>5, <4>1 DEF LibraryFits
      <4>2. CASE f \notin jobs
        <5>1. file'[f] = file[f] /\ LibraryFits(f)
          BY <2>2, <2>5, <4>2, Names DEF LibrariesFit
        <5> QED
          BY <1>1, <2>4, <2>5, <4>2, <5>1 DEF LibraryFits
      <4> QED
        BY <4>1, <4>2
    <3> QED
      BY <3>1 DEF LibrariesFit
  <2> QED
    BY <2>3, <2>5
<1> QED
  BY <1>4, <1>5

LEMMA PoolLandKept ==
  ASSUME Game, NEW s \in {"vlibs", "assets"}, NEW f, PoolLand(s, f)
  PROVE  /\ Kept
         /\ s = "vlibs" /\ LibrariesFit => LibrariesFit'
<1>1. pc = s /\ f \in open /\ UNCHANGED <<pc, todo, play, listed, ignored, cut>> /\ TypeOK
  BY DEF PoolLand, Game
<1>2. PICK t \in PoolTransfers : Closed(f, t.now, t.bad)
  BY DEF PoolLand
<1>3. t.now \in Content /\ faults + t.bad \in 0..play.faults
  BY <1>1, PoolTransferIs
<1>4. f \in Own(pc) /\ f # "mapped" /\ (s = "vlibs" => f \in todo)
  BY <1>1, Names DEF Own, Named, Game, Control
<1>5. Kept /\ \A g \in Files \ {f} : file'[g] = file[g]
  BY <1>1, <1>2, <1>3, <1>4, LandsOne
<1>6. ASSUME s = "vlibs", LibrariesFit
      PROVE  LibrariesFit'
  <2>1. ASSUME NEW g \in VLibs PROVE LibraryFits(g)'
    <3>1. CASE g = f
      BY <1>1, <1>4, <1>6, <3>1 DEF LibraryFits
    <3>2. CASE g # f
      <4>1. file'[g] = file[g] /\ LibraryFits(g)
        BY <1>5, <1>6, <3>2, Names DEF LibrariesFit
      <4> QED
        BY <1>1, <1>6, <4>1 DEF LibraryFits
    <3> QED
      BY <3>1, <3>2
  <2> QED
    BY <2>1 DEF LibrariesFit
<1> QED
  BY <1>5, <1>6

\* After the digests were checked, every library of the jobs fits for good.
LEMMA LibrariesKept ==
  ASSUME Game, LibrariesStart \/ LibrariesVerify \/ \E f \in VLibs : LibrariesLand(f)
  PROVE  /\ Kept /\ pc = "vlibs"
         /\ LibrariesFit => LibrariesFit'
<1>1. CASE LibrariesStart
  <2>1. listed \in SUBSET Own("vlibs") /\ pc = "vlibs"
    BY <1>1 DEF Own, Game, TypeOK, LibrariesStart, PoolStart
  <2> QED
    BY <1>1, <2>1, PoolStartKept DEF LibrariesStart
<1>2. CASE \E f \in VLibs : LibrariesLand(f)
  BY <1>2, PoolLandKept DEF LibrariesLand, PoolLand
<1>3. CASE LibrariesVerify
  <2>1. /\ pc = "vlibs" /\ open = {} /\ Go("natives")
        /\ file' = [f \in Files |-> IF f \in todo /\ file[f] # "good" THEN "absent" ELSE file[f]]
        /\ UNCHANGED <<open, play, listed, ignored, faults, cut>>
    BY <1>3 DEF LibrariesVerify
  <2>2. todo \subseteq VLibs /\ Touched(pc) = VLibs /\ VLibs \subseteq Files
    BY <2>1, Names DEF Own, Touched, Game, Control
  <2>3. /\ \A f \in Files \ todo : file'[f] = file[f]
        /\ \A f \in todo : file'[f] = IF file[f] = "good" THEN "good" ELSE "absent"
        /\ file' \in [Files -> Content]
    BY <2>1, <2>2 DEF Game, TypeOK, Content
  <2>4. Disk
    BY <2>1, <2>2, <2>3, GameFaults DEF Disk, Game, TypeOK
  <2>5. "natives" \in Leads(pc)
    BY <2>1 DEF Leads, Onward
  <2>6. Kept
    BY <2>1, <2>4, <2>5, Leaves DEF Deobfuscating
  <2>7. ASSUME LibrariesFit, NEW f \in VLibs
        PROVE  LibraryFits(f)'
    <3>1. f \in Files /\ LibraryFits(f)
      BY <2>2, <2>7 DEF LibrariesFit
    <3>2. CASE f \in todo
      BY <2>3, <3>2 DEF LibraryFits
    <3>3. CASE f \notin todo
      BY <2>1, <2>3, <3>1, <3>3 DEF LibraryFits
    <3> QED
      BY <3>2, <3>3
  <2> QED
    BY <2>1, <2>6, <2>7 DEF LibrariesFit
<1> QED
  BY <1>1, <1>2, <1>3

\* A native that was missing is fetched and checked, or stays missing.
LEMMA NativesKept ==
  ASSUME Game, NativesDone \/ \E f \in VLibs : Native(f) \/ NativeFetched(f)
  PROVE  /\ Kept /\ pc = "natives"
         /\ LibrariesFit => LibrariesFit'
<1>1. pc = "natives" /\ TypeOK /\ UNCHANGED <<play, listed, ignored>>
  BY DEF NativesDone, LoopDone, Native, NativeFetched, Game
<1>2. /\ Own(pc) = VLibs /\ VLibs \subseteq Files /\ "mapped" \notin VLibs
      /\ pc \in Loops \ {"vlibs"} /\ pc \notin Deobfuscating
  BY <1>1, Names DEF Own, Named, Loops, Deobfuscating
<1>3. CASE NativesDone
  <2>1. Go(After(pc)) /\ open = {} /\ UNCHANGED <<file, open, play, listed, ignored, faults, cut>>
    BY <1>1, <1>3 DEF NativesDone, LoopDone
  <2>2. Kept
    BY <1>1, <2>1, AfterIn, GoesOn DEF Deobfuscating
  <2>3. LibrariesFit => LibrariesFit'
    BY <1>1, <2>1 DEF LibrariesFit, LibraryFits
  <2> QED
    BY <1>1, <2>2, <2>3
<1>4. ASSUME NEW f \in VLibs, Native(f)
      PROVE  Kept /\ (LibrariesFit => LibrariesFit')
  <2>1. open = {} /\ f \in todo /\ pc' = pc /\ faults' = faults
    BY <1>4 DEF Native
  <2>2. CASE file[f] = "absent"
    <3>1. Open({f}) /\ UNCHANGED todo
      BY <1>4, <2>2 DEF Native, Missing
    <3>2. /\ Kept /\ open' = {f}
          /\ \A g \in Files \ {f} : file'[g] = file[g]
      BY <1>1, <1>2, <1>4, <2>1, <2>2, <3>1, OpensOne
    <3>3. cut' = cut \ {f}
      BY <3>1 DEF Open
    <3>4. ASSUME LibrariesFit, NEW g \in VLibs PROVE LibraryFits(g)'
      <4>1. CASE g = f
        BY <1>1, <2>1, <3>2, <4>1 DEF LibraryFits
      <4>2. CASE g # f
        <5>1. file'[g] = file[g] /\ LibraryFits(g)
          BY <1>2, <3>2, <3>4, <4>2 DEF LibrariesFit
        <5> QED
          BY <1>1, <2>1, <3>3, <4>2, <5>1 DEF LibraryFits
      <4> QED
        BY <4>1, <4>2
    <3> QED
      BY <3>2, <3>4 DEF LibrariesFit
  <2>3. CASE file[f] # "absent"
    <3>1. todo' = todo \ {f} /\ UNCHANGED <<file, open, cut>>
      BY <1>4, <2>3 DEF Native, Missing
    <3>2. Disk
      BY <1>1, <2>1, <3>1, DiskSame, GameFaults
    <3>3. todo' \subseteq Own(pc)
      BY <3>1 DEF Game, Control
    <3>4. Kept
      BY <1>1, <1>2, <2>1, <3>1, <3>2, <3>3, Stays
    <3>5. LibrariesFit => LibrariesFit'
      BY <1>1, <2>1, <3>1 DEF LibrariesFit, LibraryFits
    <3> QED
      BY <3>4, <3>5
  <2> QED
    BY <2>2, <2>3
<1>5. ASSUME NEW f \in VLibs, NativeFetched(f)
      PROVE  Kept /\ (LibrariesFit => LibrariesFit')
  <2>1. open = {f} /\ todo' = todo \ {f} /\ pc' = pc /\ cut' = cut
    BY <1>5 DEF NativeFetched
  <2>2. PICK t \in Transfers : Closed(f, IF t.now = "good" THEN "good" ELSE "absent", t.bad)
    BY <1>5 DEF NativeFetched
  <2>3. /\ faults + t.bad \in 0..play.faults
        /\ (IF t.now = "good" THEN "good" ELSE "absent") \in Content
    BY <1>1, TransferIs DEF Content
  <2>4. /\ Kept /\ open' = {} /\ file'[f] \in {"good", "absent"}
        /\ \A g \in Files \ {f} : file'[g] = file[g]
    BY <1>1, <1>2, <1>5, <2>1, <2>2, <2>3, LandsOne
  <2>5. ASSUME LibrariesFit, NEW g \in VLibs PROVE LibraryFits(g)'
    <3>1. CASE g = f
      BY <2>4, <3>1 DEF LibraryFits
    <3>2. CASE g # f
      <4>1. file'[g] = file[g] /\ LibraryFits(g)
        BY <1>2, <2>4, <2>5, <3>2 DEF LibrariesFit
      <4> QED
        BY <1>1, <2>1, <3>2, <4>1 DEF LibraryFits
    <3> QED
      BY <3>1, <3>2
  <2> QED
    BY <2>4, <2>5 DEF LibrariesFit
<1> QED
  BY <1>1, <1>3, <1>4, <1>5

LEMMA LoopDoneKept ==
  ASSUME Game, NEW s \in {"natives", "plibs", "llibs"}, LoopDone(s)
  PROVE  /\ Kept /\ pc = s /\ pc' = After(pc) /\ todo = {}
         /\ UNCHANGED <<file, open, play, listed, ignored, faults, cut>>
<1>1. /\ pc = s /\ open = {} /\ todo = {} /\ Go(After(pc)) /\ pc' = After(pc)
      /\ UNCHANGED <<file, open, play, listed, ignored, faults, cut>>
  BY DEF LoopDone, Go
<1> QED
  BY <1>1, AfterIn, GoesOn DEF Deobfuscating

LEMMA AssetsKept ==
  ASSUME Game, AssetIndex \/ AssetIndexFetched \/ AssetsStart \/ AssetsDone
               \/ \E f \in Assets : AssetsLand(f)
  PROVE  Kept /\ pc \in {"aindex", "assets"}
<1>1. TypeOK
  BY DEF Game
<1>2. ASSUME pc = "aindex"
      PROVE  Own(pc) = {"aindex"} /\ "assets" \in Leads(pc) /\ "assets" \notin Deobfuscating
  BY <1>2 DEF Own, Leads, Deobfuscating
<1>3. CASE AssetIndex
  <2>1. pc = "aindex" /\ open = {} /\ UNCHANGED <<play, listed, ignored, faults>>
    BY <1>3 DEF AssetIndex
  <2>2. CASE file["aindex"] = "absent"
    BY <1>2, <1>3, <2>1, <2>2, OpensOne DEF AssetIndex, Missing
  <2>3. CASE file["aindex"] # "absent"
    BY <1>2, <1>3, <2>1, <2>3, GoesOn DEF AssetIndex, Missing
  <2> QED
    BY <2>1, <2>2, <2>3
<1>4. CASE AssetIndexFetched
  <2>1. /\ pc = "aindex" /\ open = {"aindex"} /\ Go("assets")
        /\ UNCHANGED <<play, listed, ignored, cut>>
    BY <1>4 DEF AssetIndexFetched
  <2>2. PICK t \in Transfers : Closed("aindex", t.now, t.bad)
    BY <1>4 DEF AssetIndexFetched
  <2>3. t.now \in Content /\ faults + t.bad \in 0..play.faults
    BY <1>1, TransferIs
  <2> QED
    BY <1>2, <2>1, <2>2, <2>3, LandsLast
<1>5. CASE AssetsStart
  <2>1. PICK named \in Indexed : PoolStart("assets", named)
    BY <1>5 DEF AssetsStart
  <2>2. named \in SUBSET Own("assets")
    BY DEF Indexed, Own
  <2> QED
    BY <2>1, <2>2, PoolStartKept DEF PoolStart
<1>6. CASE AssetsDone
  <2>1. /\ pc = "assets" /\ open = {} /\ Go(After(pc))
        /\ UNCHANGED <<file, open, play, listed, ignored, faults, cut>>
    BY <1>6 DEF AssetsDone
  <2> QED
    BY <2>1, AfterIn, GoesOn DEF Deobfuscating
<1>7. CASE \E f \in Assets : AssetsLand(f)
  BY <1>7, PoolLandKept DEF AssetsLand, PoolLand
<1> QED
  BY <1>3, <1>4, <1>5, <1>6, <1>7

LEMMA ProfileKept ==
  ASSUME Game, Profile \/ ProfileFetched
  PROVE  Kept /\ pc = "profile"
<1>1. /\ pc = "profile" /\ Own(pc) = {"profile"} /\ "profile" \in Renewed /\ TypeOK
      /\ After(pc) \in Leads(pc) /\ After(pc) \notin Deobfuscating \cup {"vjson"}
      /\ "idle" \in Leads(pc) /\ "idle" \notin Deobfuscating
  BY AfterIn DEF Profile, ProfileFetched, Own, Renewed, Game, Leads, Deobfuscating
<1>2. CASE Profile
  BY <1>1, <1>2, OpensOne DEF Profile
<1>3. CASE ProfileFetched
  <2>1. open = {"profile"} /\ UNCHANGED <<play, listed, ignored, cut>>
    BY <1>3 DEF ProfileFetched
  <2>2. PICK t \in Transfers : /\ Closed("profile", t.now, t.bad)
                               /\ IF t.ok THEN Go(After(pc)) ELSE Fail
    BY <1>1, <1>3 DEF ProfileFetched
  <2>3. t.now \in Content /\ faults + t.bad \in 0..play.faults
    BY <1>1, TransferIs
  <2>4. CASE Go(After(pc))
    BY <1>1, <2>1, <2>2, <2>3, <2>4, LandsLast
  <2>5. CASE Fail
    BY <1>1, <2>1, <2>2, <2>3, <2>5, LandsLast
  <2> QED
    BY <1>1, <2>2, <2>4, <2>5
<1> QED
  BY <1>2, <1>3

\* Only an installer that can be read leads to its libraries.
LEMMA InstallerKept ==
  ASSUME Game, Installer \/ InstallerFetched
  PROVE  /\ Kept /\ pc = "installer"
         /\ pc' = "plibs" => file'["installer"] = "good" /\ todo' = PLibs
<1>1. /\ pc = "installer" /\ Own(pc) = {"installer"} /\ TypeOK
      /\ Leads(pc) = {"installer", "idle", "plibs"}
      /\ {"idle", "plibs"} \cap (Deobfuscating \cup {"vjson"}) = {}
      /\ Work("plibs") = PLibs
  BY WorkIs DEF Installer, InstallerFetched, Own, Game, Leads, Deobfuscating
<1>2. CASE Installer
  <2>1. open = {} /\ UNCHANGED <<play, listed, ignored, faults>>
    BY <1>2 DEF Installer
  <2>2. CASE file["installer"] = "absent"
    BY <1>1, <1>2, <2>1, <2>2, OpensOne DEF Installer, Missing
  <2>3. CASE file["installer"] # "absent"
    <3>1. /\ UNCHANGED <<file, open, cut>>
          /\ IF file["installer"] = "good" THEN Go("plibs") ELSE Fail
      BY <1>2, <2>3 DEF Installer, Missing
    <3>2. CASE file["installer"] = "good"
      BY <1>1, <2>1, <3>1, <3>2, GoesOn DEF Go
    <3>3. CASE file["installer"] # "good"
      BY <1>1, <2>1, <3>1, <3>3, GoesOn DEF Fail
    <3> QED
      BY <3>2, <3>3
  <2> QED
    BY <2>2, <2>3
<1>3. CASE InstallerFetched
  <2>1. open = {"installer"} /\ UNCHANGED <<play, listed, ignored, cut>>
    BY <1>3 DEF InstallerFetched
  <2>2. PICK t \in Transfers : /\ Closed("installer", t.now, t.bad)
                               /\ IF t.ok THEN UNCHANGED <<pc, todo>> ELSE Fail
    BY <1>3 DEF InstallerFetched
  <2>3. t.now \in Content /\ faults + t.bad \in 0..play.faults
    BY <1>1, TransferIs
  <2>4. CASE UNCHANGED <<pc, todo>>
    BY <1>1, <2>1, <2>2, <2>3, <2>4, LandsOne
  <2>5. CASE Fail
    BY <1>1, <2>1, <2>2, <2>3, <2>5, LandsLast DEF Fail
  <2> QED
    BY <2>2, <2>4, <2>5
<1> QED
  BY <1>1, <1>2, <1>3

\* A step that leaves all libraries but one alone keeps the others fitting.
LEMMA FitsAgain ==
  ASSUME LibrariesFit, NEW f, pc # "vlibs",
         open \subseteq {f} \/ pc \notin {"natives", "plibs", "llibs"},
         \A g \in Files \ {f} : file'[g] = file[g] /\ (g \in cut => g \in cut'),
         ignored \subseteq ignored',
         f \in VLibs => LibraryFits(f)'
  PROVE  LibrariesFit'
<1>1. ASSUME NEW g \in VLibs PROVE LibraryFits(g)'
  <2>1. CASE g = f
    BY <2>1
  <2>2. CASE g # f
    <3>1. /\ file[g] \in {"absent", "good"} \/ g \in cut \cup ignored
          /\ file'[g] = file[g] /\ (g \in cut => g \in cut')
      BY <2>2, Names DEF LibrariesFit, LibraryFits
    <3> QED
      BY <3>1 DEF LibraryFits
  <2> QED
    BY <2>1, <2>2
<1> QED
  BY <1>1 DEF LibrariesFit

\* Nothing is written and nothing open: every library fits as before.
LEMMA FitsStill ==
  ASSUME LibrariesFit, pc # "vlibs", open = {}, UNCHANGED <<file, cut, ignored>>
  PROVE  LibrariesFit'
BY DEF LibrariesFit, LibraryFits

\* A jar is only left behind that is one, and one named by the version JSON too is
\* the published one.
LEMMA InstallLibsKept ==
  ASSUME Game, InstallLibsDone \/ \E f \in PLibs : InstallLib(f) \/ InstallLibFetched(f)
  PROVE  /\ Kept /\ pc = "plibs"
         /\ JarsIn => JarsIn'
         /\ LibrariesFit => LibrariesFit'
<1>1. pc = "plibs" /\ TypeOK /\ UNCHANGED <<play, listed, ignored>>
  BY DEF InstallLibsDone, LoopDone, InstallLib, InstallLibFetched, Game
<1>2. /\ Own(pc) = PLibs /\ PLibs \subseteq Files /\ "mapped" \notin PLibs
      /\ pc \in Loops \ {"vlibs"} /\ pc \notin Deobfuscating
  BY <1>1, Names DEF Own, Named, Loops, Deobfuscating
<1>3. CASE InstallLibsDone
  <2>1. LoopDone("plibs")
    BY <1>3 DEF InstallLibsDone
  <2>2. /\ Kept /\ pc' = After(pc) /\ todo = {}
        /\ UNCHANGED <<file, open, play, listed, ignored, faults, cut>>
    BY <2>1, LoopDoneKept
  <2>3. pc' = "process"
    BY <1>1, <2>2, AfterIn DEF Onward
  <2>4. open = {}
    BY <2>1 DEF LoopDone
  <2> QED
    BY <1>1, <2>2, <2>3, <2>4, FitsStill DEF JarsIn
<1>4. ASSUME NEW f \in PLibs, InstallLib(f)
      PROVE  Kept /\ (JarsIn => JarsIn') /\ (LibrariesFit => LibrariesFit')
  <2>1. open = {} /\ f \in todo /\ pc' = pc /\ faults' = faults
    BY <1>4 DEF InstallLib
  <2>2. CASE ~IsJar(file[f])
    <3>1. Open({f}) /\ UNCHANGED todo /\ file[f] # "good"
      BY <1>4, <2>2 DEF InstallLib, IsJar
    <3>2. /\ Kept /\ open' = {f}
          /\ \A g \in Files \ {f} : file'[g] = file[g]
      BY <1>1, <1>2, <1>4, <2>1, <3>1, OpensOne
    <3>3. JarsIn => JarsIn'
      BY <1>1, <1>2, <2>1, <3>1, <3>2 DEF JarsIn
    <3>4. cut' = cut \ {f}
      BY <3>1 DEF Open
    <3>5. LibraryFits(f)'
      BY <1>1, <2>1, <3>2 DEF LibraryFits
    <3>6. LibrariesFit => LibrariesFit'
      BY <1>1, <2>1, <3>2, <3>4, <3>5, FitsAgain
    <3> QED
      BY <3>2, <3>3, <3>6
  <2>3. CASE IsJar(file[f])
    <3>1. todo' = todo \ {f} /\ UNCHANGED <<file, open, cut>> /\ file[f] # "junk"
      BY <1>4, <2>3 DEF InstallLib, IsJar
    <3>2. Disk
      BY <1>1, <2>1, <3>1, DiskSame, GameFaults
    <3>3. todo' \subseteq Own(pc)
      BY <3>1 DEF Game, Control
    <3>4. Kept
      BY <1>1, <1>2, <2>1, <3>1, <3>2, <3>3, Stays
    <3>5. LibrariesFit => LibrariesFit'
      BY <1>1, <2>1, <3>1, FitsStill
    <3> QED
      BY <1>1, <2>1, <3>1, <3>4, <3>5 DEF JarsIn
  <2> QED
    BY <2>2, <2>3
<1>5. ASSUME NEW f \in PLibs, InstallLibFetched(f)
      PROVE  Kept /\ (JarsIn => JarsIn') /\ (LibrariesFit => LibrariesFit')
  <2>1. open = {f} /\ todo' = todo \ {f} /\ pc' = pc /\ cut' = cut
    BY <1>5 DEF InstallLibFetched
  <2>2. PICK t \in Transfers : Closed(f, IF t.ok /\ IsJar(t.now) THEN t.now ELSE "absent", t.bad)
    BY <1>5 DEF InstallLibFetched
  <2>3. /\ faults + t.bad \in 0..play.faults
        /\ (IF t.ok /\ IsJar(t.now) THEN t.now ELSE "absent") \in {"good", "absent"}
    BY <1>1, TransferIs DEF IsJar
  <2>4. (IF t.ok /\ IsJar(t.now) THEN t.now ELSE "absent") \in Content
    BY <2>3 DEF Content
  <2>5. /\ Kept /\ file'[f] \in {"good", "absent"}
        /\ \A g \in Files \ {f} : file'[g] = file[g]
    BY <1>1, <1>2, <1>5, <2>1, <2>2, <2>3, <2>4, LandsOne
  <2>6. LibraryFits(f)'
    BY <2>5 DEF LibraryFits
  <2>7. LibrariesFit => LibrariesFit'
    BY <1>1, <2>1, <2>5, <2>6, FitsAgain
  <2> QED
    BY <1>1, <1>2, <2>1, <2>5, <2>7 DEF JarsIn
<1> QED
  BY <1>1, <1>3, <1>4, <1>5

\* The processor is left for the game with its output whole.
LEMMA ProcessorKept ==
  ASSUME Game, ProcessorSkipped \/ ProcessorUnreadable \/ RunProcessor \/ ProcessorDone
  PROVE  /\ Kept /\ pc = "process"
         /\ pc' = "main" => file'["out"] = "good"
         /\ pc' = "process" => file' = file
         /\ LibrariesFit => LibrariesFit'
<1>1. pc = "process" /\ TypeOK
  BY DEF ProcessorSkipped, ProcessorUnreadable, RunProcessor, ProcessorDone, StartTool, Game
<1>2. /\ Own(pc) = {"out", PMain} /\ Touched(pc) = {"out", PMain} /\ PMain \in Files
      /\ After(pc) \in Leads(pc) /\ After(pc) = "main" /\ "idle" \in Leads(pc)
      /\ {"main", "idle"} \cap (Deobfuscating \cup {"vjson"}) = {}
      /\ "out" \in Own("process") /\ "out" \notin VLibs
  BY <1>1, AfterIn, Names DEF Own, Touched, Onward, Leads, Deobfuscating, Named
<1>3. CASE ProcessorSkipped
  <2>1. /\ open = {} /\ file["out"] = "good" /\ Go(After(pc))
        /\ UNCHANGED <<file, open, play, listed, ignored, faults, cut>>
    BY <1>1, <1>3 DEF ProcessorSkipped, UpToDate
  <2>2. LibrariesFit => LibrariesFit'
    BY <1>1, <2>1, FitsStill
  <2> QED
    BY <1>1, <1>2, <2>1, <2>2, GoesOn DEF Go
<1>4. CASE ProcessorUnreadable
  <2>1. /\ open = {} /\ file[PMain] # "good" /\ Fail
        /\ file' = [file EXCEPT ![PMain] = "absent"]
        /\ UNCHANGED <<open, play, listed, ignored, faults, cut>>
    BY <1>4 DEF ProcessorUnreadable
  <2>2. Disk
    BY <1>1, <1>2, <2>1 DEF Disk, TypeOK, Content
  <2>3. file'[PMain] = "absent" /\ \A g \in Files \ {PMain} : file'[g] = file[g]
    BY <1>1, <1>2, <2>1 DEF TypeOK
  <2>4. LibraryFits(PMain)'
    BY <2>3 DEF LibraryFits
  <2>5. LibrariesFit => LibrariesFit'
    BY <1>1, <2>1, <2>3, <2>4, FitsAgain
  <2> QED
    BY <1>1, <1>2, <2>1, <2>2, <2>5, Leaves DEF Fail
<1>5. CASE RunProcessor
  <2>1. /\ StartTool("process", "out") /\ file["out"] # "good" /\ pc' = pc
        /\ open = {} /\ UNCHANGED <<file, cut, ignored>>
    BY <1>5 DEF RunProcessor, UpToDate, StartTool
  <2>2. LibrariesFit => LibrariesFit'
    BY <1>1, <2>1, FitsStill
  <2> QED
    BY <1>1, <1>2, <2>1, <2>2, ToolStarts
<1>6. CASE ProcessorDone
  <2>1. open = {"out"} /\ UNCHANGED <<play, listed, ignored>>
    BY <1>6 DEF ProcessorDone
  <2>2. CASE Closed("out", "good", 0) /\ Go(After(pc)) /\ UNCHANGED cut
    <3>1. "good" \in Content /\ faults + 0 \in 0..play.faults
      BY GameFaults DEF Content
    <3>2. /\ Kept /\ file'["out"] = "good"
          /\ \A g \in Files \ {"out"} : file'[g] = file[g]
      BY <1>2, <2>1, <2>2, <3>1, LandsLast
    <3>3. LibrariesFit => LibrariesFit'
      BY <1>1, <1>2, <2>1, <2>2, <3>2, FitsAgain
    <3> QED
      BY <1>1, <1>2, <2>2, <3>2, <3>3 DEF Go
  <2>3. CASE Fail /\ \E damaged : ToolFails("out", damaged)
    <3>1. Kept /\ \A g \in Files \ {"out"} : file'[g] = file[g]
      BY <1>1, <2>1, <2>3, ToolFailsKept
    <3>2. cut' = cut \cup {"out"}
      BY <2>3 DEF ToolFails
    <3>3. LibrariesFit => LibrariesFit'
      BY <1>1, <1>2, <2>1, <3>1, <3>2, FitsAgain
    <3> QED
      BY <1>1, <2>3, <3>1, <3>3 DEF Fail
  <2> QED
    BY <1>1, <1>6, <2>2, <2>3 DEF ProcessorDone
<1> QED
  BY <1>3, <1>4, <1>5, <1>6

LEMMA MainClassKept ==
  ASSUME Game, MainClass
  PROVE  Kept /\ pc = "main"
<1>1. /\ pc = "main" /\ UNCHANGED <<file, open, play, listed, ignored, faults, cut>>
      /\ Go(After(pc)) \/ Fail
  BY DEF MainClass
<1>2. open = {} /\ "idle" \in Leads(pc) /\ "idle" \notin Deobfuscating
  BY <1>1 DEF Game, Control, Own, Leads, Deobfuscating
<1> QED
  BY <1>1, <1>2, AfterIn, GoesOn DEF Deobfuscating

LEMMA GameOverKept ==
  ASSUME Game, GameOver
  PROVE  Kept /\ pc = "run"
<1>1. pc = "run" /\ Fail /\ UNCHANGED <<file, open, play, listed, ignored, faults, cut>>
  BY DEF GameOver
<1>2. open = {} /\ "idle" \in Leads(pc) /\ "idle" \notin Deobfuscating
  BY <1>1 DEF Game, Control, Own, Leads, Deobfuscating
<1> QED
  BY <1>1, <1>2, GoesOn

\* Whatever comes for a library of the loader is kept, and noted.
LEMMA LoaderLibsKept ==
  ASSUME Game, LoaderLibsDone \/ \E f \in LLibs : LoaderLib(f) \/ LoaderLibFetched(f)
  PROVE  /\ Kept /\ pc = "llibs"
         /\ LibrariesFit => LibrariesFit'
<1>1. pc = "llibs" /\ TypeOK /\ UNCHANGED <<play, listed>>
  BY DEF LoaderLibsDone, LoopDone, LoaderLib, LoaderLibFetched, Game
<1>2. /\ Own(pc) = LLibs /\ LLibs \subseteq Files /\ "mapped" \notin LLibs
      /\ pc \in Loops \ {"vlibs"} /\ pc \notin Deobfuscating
  BY <1>1, Names DEF Own, Named, Loops, Deobfuscating
<1>3. CASE LoaderLibsDone
  <2>1. open = {} /\ LoopDone("llibs")
    BY <1>3 DEF LoaderLibsDone, LoopDone
  <2> QED
    BY <1>1, <2>1, LoopDoneKept, FitsStill
<1>4. ASSUME NEW f \in LLibs, LoaderLib(f)
      PROVE  Kept /\ (LibrariesFit => LibrariesFit')
  <2>1. open = {} /\ f \in todo /\ pc' = pc /\ UNCHANGED <<faults, ignored>>
    BY <1>4 DEF LoaderLib
  <2>2. CASE file[f] = "absent"
    <3>1. Open({f}) /\ UNCHANGED todo
      BY <1>4, <2>2 DEF LoaderLib, Missing
    <3>2. /\ Kept /\ open' = {f}
          /\ \A g \in Files \ {f} : file'[g] = file[g]
      BY <1>1, <1>2, <1>4, <2>1, <2>2, <3>1, OpensOne
    <3>3. cut' = cut \ {f}
      BY <3>1 DEF Open
    <3>4. LibraryFits(f)'
      BY <1>1, <2>1, <3>2 DEF LibraryFits
    <3>5. LibrariesFit => LibrariesFit'
      BY <1>1, <2>1, <3>2, <3>3, <3>4, FitsAgain
    <3> QED
      BY <3>2, <3>5
  <2>3. CASE file[f] # "absent"
    <3>1. todo' = todo \ {f} /\ UNCHANGED <<file, open, cut>>
      BY <1>4, <2>3 DEF LoaderLib, Missing
    <3>2. Disk
      BY <1>1, <2>1, <3>1, DiskSame, GameFaults
    <3>3. todo' \subseteq Own(pc)
      BY <3>1 DEF Game, Control
    <3>4. Kept
      BY <1>1, <1>2, <2>1, <3>1, <3>2, <3>3, Stays
    <3>5. LibrariesFit => LibrariesFit'
      BY <1>1, <2>1, <3>1, FitsStill
    <3> QED
      BY <3>4, <3>5
  <2> QED
    BY <2>2, <2>3
<1>5. ASSUME NEW f \in LLibs, LoaderLibFetched(f)
      PROVE  Kept /\ (LibrariesFit => LibrariesFit')
  <2>1. open = {f} /\ todo' = todo \ {f} /\ pc' = pc /\ cut' = cut
    BY <1>5 DEF LoaderLibFetched
  <2>2. PICK t \in Transfers :
          /\ Closed(f, t.now, t.bad)
          /\ ignored' = IF t.now = "good" THEN ignored ELSE ignored \cup {f}
    BY <1>5 DEF LoaderLibFetched
  <2>3. t.now \in Content /\ faults + t.bad \in 0..play.faults
    BY <1>1, TransferIs
  <2>4. ignored' = ignored \/ ignored' = ignored \cup {f}
    BY <2>2
  <2>5. /\ Kept /\ file'[f] = t.now
        /\ \A g \in Files \ {f} : file'[g] = file[g]
    BY <1>1, <1>2, <1>5, <2>1, <2>2, <2>3, <2>4, LandsOne
  <2>6. LibraryFits(f)'
    BY <2>2, <2>5 DEF LibraryFits
  <2>7. LibrariesFit => LibrariesFit'
    BY <1>1, <2>1, <2>4, <2>5, <2>6, FitsAgain
  <2> QED
    BY <2>5, <2>7
<1> QED
  BY <1>1, <1>3, <1>4, <1>5

\* What a crash leaves unfinished is in cut.
LEMMA CrashKept ==
  ASSUME Game, Crash
  PROVE  /\ Kept /\ pc' = "idle" /\ (LibrariesFit => LibrariesFit')
<1>1. /\ faults < play.faults /\ faults' = faults + 1 /\ Fail /\ open' = {}
      /\ cut' = cut \cup open \cup (IF pc = "vlibs" THEN todo ELSE {})
      /\ UNCHANGED <<play, listed, ignored>> /\ TypeOK
  BY DEF Crash, Game
<1>2. PICK halved \in SUBSET open :
         file' = [f \in Files |-> IF f \in halved THEN "part" ELSE file[f]]
  BY DEF Crash
<1>3. /\ halved \subseteq Touched(pc) /\ Touched(pc) \subseteq Files /\ halved \subseteq Files
      /\ \A f \in halved \ Renewed : file[f] # "good"
      /\ "idle" \in Leads(pc) /\ "idle" \notin Deobfuscating
  BY OwnFiles DEF Game, Control, Leads, Deobfuscating
<1>4. /\ \A f \in halved : file'[f] = "part"
      /\ \A f \in Files \ halved : file'[f] = file[f]
      /\ file' \in [Files -> Content]
  BY <1>1, <1>2, <1>3 DEF TypeOK, Content
<1>5. Disk
  BY <1>1, <1>3, <1>4, GameFaults DEF Disk, TypeOK
<1>6. Kept
  BY <1>1, <1>3, <1>5, Leaves
<1>7. ASSUME LibrariesFit, NEW f \in VLibs PROVE LibraryFits(f)'
  <2>1. f \in Files /\ LibraryFits(f)
    BY <1>7, Names DEF LibrariesFit
  <2>2. CASE f \in open
    BY <1>1, <2>2 DEF LibraryFits
  <2>3. CASE f \notin open
    BY <1>1, <1>4, <2>1, <2>3 DEF LibraryFits
  <2> QED
    BY <2>2, <2>3
<1> QED
  BY <1>1, <1>6, <1>7 DEF Fail, LibrariesFit

-----------------------------------------------------------------------------
(* The invariant of launches.                                              *)

\* Where a launch that is now at q was before.
LEMMA WhereFrom ==
  ASSUME Game, NEW q \in Leads(pc)
  PROVE  /\ q \in Later => pc \in Later \cup {"client"}
         /\ q \in {"plibs", "process"} => pc \in {"plibs", "process", "installer"}
         /\ q = "plibs" => pc # "process"
         /\ play.loader = "forge" /\ q \in Patched => pc \in Patched \cup {"process"}
<1>1. CASE pc \in {"idle", "vjson"}
  BY <1>1 DEF Leads, Later, Patched
<1>2. CASE pc \in {"client", "run"}
  BY <1>2 DEF Leads, Later, Patched, Onward
<1>3. CASE pc \in Deobfuscating \cup {"mapped"}
  <2>1. play.route = "client" /\ play.loader # "forge"
    BY <1>3, GamePlaces, PlayIs DEF Game
  <2> QED
    BY <1>3, <2>1 DEF Leads, Later, Patched, Onward, Deobfuscating
<1>4. CASE pc \in {"installer", "plibs", "process"}
  BY <1>4 DEF Leads, Later, Patched, Onward
<1>5. CASE pc \in {"profile", "java", "main", "vlibs", "natives", "aindex", "assets", "llibs"}
  <2>1. pc = "profile" => play.loader = "fabric"
    BY GamePlaces
  <2>2. play.loader = "forge" => play.route # "client"
    BY PlayIs DEF Game
  <2> QED
    BY <1>5, <2>1, <2>2 DEF Leads, Later, Patched, Onward
<1> QED
  BY <1>1, <1>2, <1>3, <1>4, <1>5, GamePlaces DEF Common

\* A step keeps every part of the invariant that is not about its own place.
LEMMA Quiet ==
  ASSUME Game, Kept
  PROVE  /\ pc # "client" /\ ClientIn => ClientIn'
         /\ pc \notin {"vlibs", "natives", "plibs", "process", "llibs"} /\ LibrariesFit
              => LibrariesFit'
         /\ pc # "installer" /\ InstallerIn => InstallerIn'
         /\ pc # "process" /\ PatchIn => PatchIn'
         /\ pc \notin {"installer", "plibs", "process"} => JarsIn'
<1>1. /\ play' = play /\ pc' \in Leads(pc)
      /\ \A f \in Files \ Touched(pc) : file'[f] = file[f] /\ (f \in cut => f \in cut')
      /\ ignored \subseteq ignored'
  BY DEF Kept, Disk
<1>2. {"client", "installer", "out"} \subseteq Files
  BY Names DEF Named
<1>3. /\ pc \in Later => "client" \notin Touched(pc)
      /\ pc \in Patched => "installer" \notin Touched(pc) /\ "out" \notin Touched(pc)
      /\ pc \in {"plibs", "process"} => "installer" \notin Touched(pc)
  <2>1. \A f \in {"client", "installer", "out"} : f \notin VLibs \cup Assets \cup PLibs \cup LLibs
    BY Names DEF Named
  <2> QED
    BY <2>1, FileAssumption DEF Later, Patched, Touched, Own, JavaFiles, Parts
<1>4. pc # "client" /\ ClientIn => ClientIn'
  BY <1>1, <1>2, <1>3, WhereFrom DEF ClientIn
<1>5. pc # "installer" /\ InstallerIn => InstallerIn'
  BY <1>1, <1>2, <1>3, WhereFrom DEF InstallerIn
<1>6. pc # "process" /\ PatchIn => PatchIn'
  BY <1>1, <1>2, <1>3, WhereFrom DEF PatchIn
<1>7. pc \notin {"installer", "plibs", "process"} => JarsIn'
  BY <1>1, WhereFrom DEF JarsIn
<1>8. ASSUME pc \notin {"vlibs", "natives", "plibs", "process", "llibs"}, LibrariesFit,
             NEW f \in VLibs
      PROVE  LibraryFits(f)'
  <2>1. f \in Files /\ LibraryFits(f)
    BY <1>8, Names DEF LibrariesFit
  <2>2. f \notin Touched(pc)
    BY <1>8, Names DEF Touched, Own, Named, JavaFiles, Parts, Installed
  <2> QED
    BY <1>1, <1>8, <2>1, <2>2 DEF LibraryFits
<1> QED
  BY <1>4, <1>5, <1>6, <1>7, <1>8 DEF LibrariesFit

\* Every step of a launch, and every crash, keeps the invariant of launches.
LEMMA GameStep ==
  ASSUME Game, GameInv, Next
  PROVE  Kept /\ GameInv'
<1> USE DEF GameInv
<1>1. ASSUME Kept,
             pc \notin {"client", "vlibs", "natives", "installer", "plibs", "process", "llibs"}
      PROVE  GameInv'
  BY <1>1, Quiet
<1>2. CASE Launch \/ VersionJson
  <2>1. pc \in {"idle", "vjson"}
    BY <1>2 DEF Launch, VersionJson
  <2> QED
    BY <1>1, <1>2, <2>1, LaunchKept, VersionJsonKept
<1>3. CASE ClientJar
  <2>1. pc = "client"
    BY <1>3 DEF ClientJar
  <2> QED
    BY <1>3, <2>1, ClientJarKept, Quiet DEF ClientIn
<1>4. CASE JavaInstalled \/ JavaMissing \/ \E f \in JavaFiles : JavaFetch(f) \/ JavaFetched(f)
  <2>1. pc \in {"java", "djava"}
    BY <1>4 DEF JavaInstalled, JavaMissing, JavaFetch, JavaFetched, AtJava
  <2> QED
    BY <1>1, <1>4, <2>1, JavaKept
<1>5. CASE \/ MappedCached \/ Mappings \/ MappingsFetched
           \/ TinyCached \/ Convert \/ Converted \/ Remap \/ Remapped
  <2>1. pc \in {"mapped", "maps", "tiny", "remap"}
    BY <1>5 DEF MappedCached, Mappings, MappingsFetched, TinyCached, Convert, Converted,
                Remap, Remapped, StartTool
  <2> QED
    BY <1>1, <1>5, <2>1, DeobfuscationKept
<1>6. CASE LibrariesStart \/ LibrariesVerify \/ \E f \in VLibs : LibrariesLand(f)
  BY <1>6, LibrariesKept, Quiet
<1>7. CASE NativesDone \/ \E f \in VLibs : Native(f) \/ NativeFetched(f)
  BY <1>7, NativesKept, Quiet
<1>8. CASE AssetIndex \/ AssetIndexFetched \/ AssetsStart \/ AssetsDone
           \/ \E f \in Assets : AssetsLand(f)
  BY <1>1, <1>8, AssetsKept
<1>9. CASE Profile \/ ProfileFetched
  BY <1>1, <1>9, ProfileKept
<1>10. CASE Installer \/ InstallerFetched
  <2>1. /\ Kept /\ pc = "installer"
        /\ pc' = "plibs" => file'["installer"] = "good" /\ todo' = PLibs
    BY <1>10, InstallerKept
  <2>2. pc' \in {"installer", "idle", "plibs"}
    BY <2>1 DEF Kept, Leads
  <2>3. InstallerIn' /\ JarsIn'
    BY <2>1, <2>2 DEF InstallerIn, JarsIn, Patched
  <2> QED
    BY <2>1, <2>3, Quiet
<1>11. CASE InstallLibsDone \/ \E f \in PLibs : InstallLib(f) \/ InstallLibFetched(f)
  BY <1>11, InstallLibsKept, Quiet
<1>12. CASE ProcessorSkipped \/ ProcessorUnreadable \/ RunProcessor \/ ProcessorDone
  <2>1. /\ Kept /\ pc = "process"
        /\ pc' = "main" => file'["out"] = "good"
        /\ pc' = "process" => file' = file
        /\ LibrariesFit'
    BY <1>12, ProcessorKept
  <2>2. pc' \in {"process", "idle", "main"}
    BY <2>1 DEF Kept, Leads, Onward
  <2>3. PatchIn' /\ JarsIn'
    BY <2>1, <2>2 DEF PatchIn, JarsIn, Patched
  <2> QED
    BY <2>1, <2>3, Quiet
<1>13. CASE MainClass \/ GameOver
  BY <1>1, <1>13, MainClassKept, GameOverKept
<1>14. CASE LoaderLibsDone \/ \E f \in LLibs : LoaderLib(f) \/ LoaderLibFetched(f)
  BY <1>14, LoaderLibsKept, Quiet
<1>15. CASE Crash
  <2>1. Kept /\ pc' = "idle" /\ LibrariesFit'
    BY <1>15, CrashKept
  <2>2. ClientIn' /\ InstallerIn' /\ PatchIn' /\ JarsIn'
    BY <2>1 DEF ClientIn, InstallerIn, PatchIn, JarsIn, Later, Patched
  <2> QED
    BY <2>1, <2>2
<1> QED
  BY <1>2, <1>3, <1>4, <1>5, <1>6, <1>7, <1>8, <1>9, <1>10, <1>11, <1>12, <1>13, <1>14, <1>15
     DEF Next, Step

-----------------------------------------------------------------------------
(* The invariant of the bootstrapper.                                      *)

\* A step of the bootstrapper, and what it leaves alone.
Boot == TypeOK /\ Control /\ play.route = "start"

Booted ==
    /\ play' = play /\ TypeOK' /\ Control'
    /\ \A f \in Files \ Installed : file'[f] = file[f]

Unpacked(S) == \A f \in S : file[f] = "good" \/ f \in cut

\* Who can be started, and what is unpacked.
BootInv ==
    /\ pc \in {"self", "selfzip", "swap"} => Runnable
    /\ pc \notin {"idle", "swapped", "stamp", "chmod"} => Runnable \/ "boot" \in ignored
    /\ pc = "idle" => Runnable \/ "boot" \in cut \cup ignored
    /\ pc = "swapped" => file["aside"] \in {"good", "old"}
    /\ file["zip"] = "good" /\ pc \notin {"verify", "extract"} => Unpacked(Parts)
    /\ pc \in {"deps", "spawn", "started"} => Unpacked(Parts)
    /\ pc = "extract" => Unpacked(Parts \ todo)

\* What an installation consists of.
LEMMA InstalledIs ==
  /\ Installed = {"boot", "aside", "stamp", "zip", "launcher", "data"}
  /\ Installed \subseteq Files /\ Parts = {"launcher", "data"}
BY Names DEF Installed, Parts

\* Files are open and to do while the archive is unpacked, and only then.
LEMMA BootPlaces ==
  ASSUME Boot
  PROVE  /\ pc \in {"idle"} \cup Boots
         /\ Own(pc) = IF pc = "extract" THEN Parts ELSE {}
         /\ open \subseteq Own(pc) /\ todo \subseteq Own(pc) /\ open \subseteq todo
<1>1. pc \in {"idle"} \cup Boots
  BY DEF Boot, Control, Reached
<1>2. Own(pc) = IF pc = "extract" THEN Parts ELSE {}
  BY <1>1 DEF Own, Boots
<1> QED
  BY <1>1, <1>2 DEF Boot, Control

\* A step that ends in a place of the bootstrapper and touches nothing else.
LEMMA BootMoves ==
  ASSUME Boot, UNCHANGED <<play, listed>>, faults' \in 0..play.faults,
         file' \in [Files -> Content], cut' \subseteq Files,
         ignored' = ignored \/ ignored' = ignored \cup {"boot"},
         \A f \in Files \ Installed : file'[f] = file[f],
         pc' \in {"idle"} \cup Boots,
         pc' # "extract" => todo' = {},
         todo' \subseteq Parts, open' \subseteq todo'
  PROVE  Booted
<1>1. Reached' = Reached /\ Reached = {"idle"} \cup Boots
  BY DEF Boot, Reached
<1>2. Own(pc') = IF pc' = "extract" THEN Parts ELSE {}
  BY DEF Own, Boots
<1>3. pc' \notin Deobfuscating \cup {"java", "djava"} /\ (pc' \notin Loops => pc' # "extract")
  BY DEF Boots, Deobfuscating, Loops
<1>4. Parts \subseteq Renewed
  BY DEF Renewed, Installed
<1>5. Control'
  BY <1>1, <1>2, <1>3, <1>4 DEF Control
<1>6. ignored' \subseteq Files
  BY InstalledIs DEF TypeOK, Boot
<1>7. TypeOK'
  BY <1>6, InstalledIs DEF TypeOK, Boot, Boots, Installed
<1> QED
  BY <1>5, <1>7 DEF Booted

\* Writing one or two of the files of the installation.
LEMMA Writes ==
  ASSUME Boot, NEW f \in Installed, NEW c \in Content, NEW g \in Installed, NEW d \in Content,
         \/ file' = [file EXCEPT ![f] = c]
         \/ file' = [file EXCEPT ![f] = c, ![g] = d] /\ f # g
  PROVE  /\ file' \in [Files -> Content]
         /\ \A h \in Files \ Installed : file'[h] = file[h]
BY InstalledIs DEF Boot, TypeOK

\* A step outside of unpacking.
LEMMA Going ==
  ASSUME Boot, UNCHANGED <<play, listed>>, UNCHANGED faults \/ Wrong,
         ignored' = ignored \/ ignored' = ignored \cup {"boot"},
         file' \in [Files -> Content], cut' \subseteq Files,
         \A f \in Files \ Installed : file'[f] = file[f],
         pc # "extract", open' = open, NEW q \in {"idle"} \cup Boots, q # "extract",
         To(q) \/ (Exit /\ q = "idle")
  PROVE  Booted /\ pc' = q /\ todo' = {}
<1>1. open = {} /\ todo = {}
  BY BootPlaces
<1>2. faults' \in 0..play.faults
  BY PlayIs DEF Wrong, Boot, TypeOK
<1>3. pc' = q /\ todo' = {}
  BY <1>1 DEF To, Exit, Fail
<1>4. Booted
  BY <1>1, <1>2, <1>3, BootMoves
<1> QED
  BY <1>3, <1>4

\* The exchange of the bootstrapper: it says nothing of the launcher.
LEMMA SelfKept ==
  ASSUME Boot, BootInv,
         Start \/ self_update \/ SelfFetched \/ SetAside \/ Replace \/ Stamp \/ Relaunch
  PROVE  Booted /\ BootInv'
<1>1. /\ TypeOK /\ {"boot", "aside", "stamp", "zip", "launcher", "data"} \subseteq Files
      /\ Installed = {"boot", "aside", "stamp", "zip", "launcher", "data"}
      /\ {"absent", "good", "junk", "flat"} \subseteq Content
      /\ \A f \in Files : file[f] \in Content
      /\ file \in [Files -> Content] /\ cut \subseteq Files
      /\ Parts = {"launcher", "data"}
  BY InstalledIs DEF Boot, TypeOK, Content
<1>2. /\ {"idle", "self", "asset", "selfzip", "swap", "swapped", "stamp", "chmod"}
              \subseteq ({"idle"} \cup Boots) \ {"extract"}
  BY DEF Boots
<1>3. CASE Start
  <2>1. /\ pc = "idle" /\ Runnable /\ To("self")
        /\ file' = [file EXCEPT !["aside"] = "absent"]
        /\ UNCHANGED <<play, listed, ignored, open, faults, cut>>
    BY <1>3 DEF Start, cleanup_old_self, bootVars
  <2>2. Booted /\ pc' = "self"
    BY <1>1, <1>2, <2>1, Writes, Going
  <2> QED
    BY <1>1, <2>1, <2>2 DEF BootInv, Runnable, Unpacked
<1>4. CASE self_update \/ SelfFetched
  <2>1. /\ pc \in {"self", "selfzip"} /\ UNCHANGED <<play, listed, ignored, file, open, cut>>
        /\ To("asset") \/ To("selfzip") \/ To("swap")
        /\ UNCHANGED faults \/ Wrong
    BY <1>4 DEF self_update, SelfFetched, bootVars
  <2>2. Booted /\ pc' \in {"asset", "selfzip", "swap"}
    BY <1>1, <1>2, <2>1, Going
  <2> QED
    BY <1>1, <2>1, <2>2 DEF BootInv, Runnable, Unpacked
<1>5. CASE SetAside
  <2>1. pc = "swap" /\ UNCHANGED <<play, listed, ignored, open, cut>>
    BY <1>5 DEF SetAside, bootVars
  <2>2. CASE /\ file' = [file EXCEPT !["aside"] = file["boot"], !["boot"] = "absent"]
             /\ To("swapped") /\ UNCHANGED faults
    <3>1. Booted /\ pc' = "swapped"
      BY <1>1, <1>2, <2>1, <2>2, Writes, Going
    <3> QED
      BY <1>1, <2>1, <2>2, <3>1 DEF BootInv, Runnable, Unpacked
  <2>3. CASE To("asset") /\ Wrong /\ UNCHANGED file
    <3>1. Booted /\ pc' = "asset"
      BY <1>1, <1>2, <2>1, <2>3, Going
    <3> QED
      BY <1>1, <2>1, <2>3, <3>1 DEF BootInv, Runnable, Unpacked
  <2> QED
    BY <1>5, <2>2, <2>3 DEF SetAside
<1>6. CASE Replace
  <2>1. pc = "swapped" /\ UNCHANGED <<play, listed, open, cut>>
    BY <1>6 DEF Replace
  <2>2. CASE /\ file' = [file EXCEPT !["boot"] = "flat"]
             /\ To("stamp") /\ UNCHANGED <<faults, ignored>>
    <3>1. Booted /\ pc' = "stamp"
      BY <1>1, <1>2, <2>1, <2>2, Writes, Going
    <3> QED
      BY <1>1, <2>1, <2>2, <3>1 DEF BootInv, Runnable, Unpacked
  <2>3. CASE /\ file' = [file EXCEPT !["boot"] = file["aside"], !["aside"] = "absent"]
             /\ To("asset") /\ Wrong /\ UNCHANGED ignored
    <3>1. file["aside"] \in Content
      BY <1>1
    <3>2. file' \in [Files -> Content] /\ \A h \in Files \ Installed : file'[h] = file[h]
      BY <1>1, <2>3, <3>1
    <3>3. Booted /\ pc' = "asset"
      BY <1>1, <1>2, <2>1, <2>3, <3>2, Going
    <3> QED
      BY <1>1, <2>1, <2>3, <3>3 DEF BootInv, Runnable, Unpacked
  <2>4. CASE /\ ignored' = ignored \cup {"boot"}
             /\ To("asset") /\ Wrong /\ UNCHANGED file
    <3>1. Booted /\ pc' = "asset"
      BY <1>1, <1>2, <2>1, <2>4, Going
    <3> QED
      BY <1>1, <2>1, <2>4, <3>1 DEF BootInv, Runnable, Unpacked
  <2> QED
    BY <1>6, <2>2, <2>3, <2>4 DEF Replace
<1>7. CASE Stamp
  <2>1. /\ pc = "stamp" /\ UNCHANGED <<play, listed, ignored, open, cut>> /\ To("chmod")
        /\ UNCHANGED faults \/ Wrong
        /\ \E c \in {"good", "junk", file["stamp"]} : file' = [file EXCEPT !["stamp"] = c]
    BY <1>7 DEF Stamp, bootVars
  <2>2. PICK c \in Content : file' = [file EXCEPT !["stamp"] = c]
    BY <1>1, <2>1
  <2>3. Booted /\ pc' = "chmod"
    BY <1>1, <1>2, <2>1, <2>2, Writes, Going
  <2> QED
    BY <1>1, <2>1, <2>2, <2>3 DEF BootInv, Runnable, Unpacked
<1>8. CASE Relaunch
  <2>1. /\ pc = "chmod" /\ UNCHANGED <<play, listed, open, cut>>
        /\ UNCHANGED faults \/ Wrong
    BY <1>8 DEF Relaunch
  <2>2. CASE /\ To("self") \/ To("asset")
             /\ \/ file' = [file EXCEPT !["boot"] = "good", !["aside"] = "absent"]
                \/ file' = [file EXCEPT !["boot"] = "good"]
             /\ UNCHANGED ignored
    <3>1. file' \in [Files -> Content] /\ \A h \in Files \ Installed : file'[h] = file[h]
      BY <1>1, <2>2, Writes
    <3>2. Booted /\ pc' \in {"self", "asset"}
      BY <1>1, <1>2, <2>1, <2>2, <3>1, Going
    <3> QED
      BY <1>1, <2>1, <2>2, <3>2 DEF BootInv, Runnable, Unpacked
  <2>3. CASE To("asset") /\ ignored' = ignored \cup {"boot"} /\ UNCHANGED file
    <3>1. Booted /\ pc' = "asset"
      BY <1>1, <1>2, <2>1, <2>3, Going
    <3> QED
      BY <1>1, <2>1, <2>3, <3>1 DEF BootInv, Runnable, Unpacked
  <2> QED
    BY <1>8, <2>1, <2>2, <2>3 DEF Relaunch
<1> QED
  BY <1>3, <1>4, <1>5, <1>6, <1>7, <1>8

\* The archive: once it is good and not being unpacked, all of it was, or a crash
\* has come between.
LEMMA AssetKept ==
  ASSUME Boot, BootInv, ensure_zip_asset \/ download \/ Verify \/ check \/ spawn_detached \/ Done
  PROVE  Booted /\ BootInv'
<1>1. /\ TypeOK /\ {"boot", "aside", "stamp", "zip", "launcher", "data"} \subseteq Files
      /\ Installed = {"boot", "aside", "stamp", "zip", "launcher", "data"}
      /\ {"absent", "good", "junk", "flat"} \subseteq Content
      /\ \A f \in Files : file[f] \in Content
      /\ file \in [Files -> Content] /\ cut \subseteq Files
      /\ Parts = {"launcher", "data"}
  BY InstalledIs DEF Boot, TypeOK, Content
<1>2. /\ {"idle", "zip", "verify", "deps", "spawn", "started"}
              \subseteq ({"idle"} \cup Boots) \ {"extract"}
      /\ "extract" \in {"idle"} \cup Boots
  BY DEF Boots
<1>3. CASE ensure_zip_asset
  <2>1. /\ pc = "asset" /\ UNCHANGED <<play, listed, ignored, open, cut>>
        /\ UNCHANGED faults \/ Wrong
    BY <1>3 DEF ensure_zip_asset, bootVars
  <2>2. CASE file["zip"] = "good" /\ To("deps") /\ UNCHANGED file
    <3>1. Booted /\ pc' = "deps"
      BY <1>1, <1>2, <2>1, <2>2, Going
    <3> QED
      BY <1>1, <2>1, <2>2, <3>1 DEF BootInv, Runnable, Unpacked
  <2>3. CASE file' = [file EXCEPT !["zip"] = "absent"] /\ To("zip")
    <3>1. Booted /\ pc' = "zip"
      BY <1>1, <1>2, <2>1, <2>3, Writes, Going
    <3> QED
      BY <1>1, <2>1, <2>3, <3>1 DEF BootInv, Runnable, Unpacked
  <2>4. CASE Exit /\ UNCHANGED file
    <3>1. Booted /\ pc' = "idle"
      BY <1>1, <1>2, <2>1, <2>4, Going
    <3> QED
      BY <1>1, <2>1, <2>4, <3>1 DEF BootInv, Runnable, Unpacked
  <2> QED
    BY <1>3, <2>2, <2>3, <2>4 DEF ensure_zip_asset
<1>4. CASE download
  <2>1. pc = "zip" /\ UNCHANGED <<play, listed, ignored, open, cut>> /\ (UNCHANGED faults \/ Wrong)
    BY <1>4 DEF download, bootVars
  <2>2. CASE /\ \E c \in {"good", "junk"} : file' = [file EXCEPT !["zip"] = c]
             /\ To("verify")
    <3>1. PICK c \in {"good", "junk"} : file' = [file EXCEPT !["zip"] = c]
      BY <2>2
    <3>2. file' \in [Files -> Content] /\ \A h \in Files \ Installed : file'[h] = file[h]
      BY <1>1, <3>1
    <3>3. Booted /\ pc' = "verify"
      BY <1>1, <1>2, <2>1, <2>2, <3>2, Going
    <3> QED
      BY <1>1, <2>1, <3>1, <3>3 DEF BootInv, Runnable, Unpacked
  <2>3. CASE Exit /\ UNCHANGED file
    <3>1. Booted /\ pc' = "idle"
      BY <1>1, <1>2, <2>1, <2>3, Going
    <3> QED
      BY <1>1, <2>1, <2>3, <3>1 DEF BootInv, Runnable, Unpacked
  <2> QED
    BY <1>4, <2>2, <2>3 DEF download
<1>5. CASE Verify
  <2>1. pc = "verify" /\ UNCHANGED <<play, listed, ignored, open, faults, cut>>
    BY <1>5 DEF Verify, bootVars
  <2>2. CASE pc' = "extract" /\ todo' = Parts /\ UNCHANGED file
    <3>1. open = {} /\ faults \in 0..play.faults
      BY <2>1, BootPlaces DEF Boot, TypeOK
    <3>2. Booted
      BY <1>1, <1>2, <2>1, <2>2, <3>1, BootMoves
    <3> QED
      BY <1>1, <2>1, <2>2, <3>2 DEF BootInv, Runnable, Unpacked
  <2>3. CASE file' = [file EXCEPT !["zip"] = "absent"] /\ Exit
    <3>1. Booted /\ pc' = "idle"
      BY <1>1, <1>2, <2>1, <2>3, Writes, Going
    <3> QED
      BY <1>1, <2>1, <2>3, <3>1 DEF BootInv, Runnable, Unpacked
  <2> QED
    BY <1>5, <2>2, <2>3 DEF Verify
<1>6. CASE check \/ spawn_detached \/ Done
  <2>1. /\ pc \in {"deps", "spawn", "started"}
        /\ UNCHANGED <<play, listed, ignored, file, open, cut>>
        /\ UNCHANGED faults \/ Wrong
        /\ To("spawn") \/ To("started") \/ Exit
    BY <1>6 DEF check, spawn_detached, Done, bootVars
  <2>2. Booted /\ pc' \in {"spawn", "started", "idle"}
    BY <1>1, <1>2, <2>1, Going
  <2> QED
    BY <1>1, <2>1, <2>2 DEF BootInv, Runnable, Unpacked
<1> QED
  BY <1>3, <1>4, <1>5, <1>6

\* Every entry that is not to do any more was unpacked, or cut short.
LEMMA ExtractKept ==
  ASSUME Boot, BootInv, NEW f \in Parts, extract_zip(f) \/ Extracted(f)
  PROVE  Booted /\ BootInv'
<1>1. /\ TypeOK /\ Installed \subseteq Files
      /\ Parts = {"launcher", "data"} /\ Parts \subseteq Installed
      /\ {"part", "good"} \subseteq Content /\ file \in [Files -> Content] /\ cut \subseteq Files
      /\ ignored \subseteq Files
      /\ f \in Files /\ "boot" \in Files /\ "zip" \in Files /\ "aside" \in Files
  BY InstalledIs DEF Boot, TypeOK, Content, Installed
<1> DEFINE Startable == Runnable \/ "boot" \in ignored
<1>2. {"idle", "deps", "extract"} \subseteq {"idle"} \cup Boots
  BY DEF Boots
<1>3. /\ pc = "extract" /\ UNCHANGED <<play, listed, ignored>> /\ todo \subseteq Parts
      /\ open \subseteq todo /\ faults \in 0..play.faults
      /\ Wrong => faults' \in 0..play.faults
  BY BootPlaces, PlayIs DEF extract_zip, Extracted, bootVars, Wrong, Boot, TypeOK
<1>4. Startable /\ Unpacked(Parts \ todo)
  BY <1>3 DEF BootInv
<1>5. CASE extract_zip(f)
  <2>1. open = {} /\ f \in todo
    BY <1>5 DEF extract_zip
  <2>2. CASE Open({f}) /\ UNCHANGED <<pc, todo, faults>>
    <3>1. /\ file' \in [Files -> Content] /\ open' = {f} /\ cut' = cut \ {f}
          /\ \A g \in Files \ {f} : file'[g] = file[g]
      BY <1>1, <2>2, OpenIs
    <3>2. Booted
      BY <1>1, <1>2, <1>3, <2>1, <2>2, <3>1, BootMoves
    <3>3. Unpacked(Parts \ todo)'
      BY <1>1, <1>4, <2>1, <2>2, <3>1 DEF Unpacked
    <3>4. Startable'
      BY <1>1, <1>3, <1>4, <3>1 DEF Runnable
    <3> QED
      BY <1>3, <2>2, <3>2, <3>3, <3>4 DEF BootInv
  <2>3. CASE cut' = cut \cup todo /\ Exit /\ Wrong /\ UNCHANGED <<file, open>>
    <3>1. pc' = "idle" /\ todo' = {}
      BY <2>3 DEF Exit, Fail
    <3>2. Booted
      BY <1>1, <1>2, <1>3, <2>1, <2>3, <3>1, BootMoves
    <3>3. Unpacked(Parts)' /\ Startable'
      BY <1>3, <1>4, <2>3 DEF Unpacked, Runnable
    <3> QED
      BY <3>1, <3>2, <3>3 DEF BootInv
  <2> QED
    BY <1>5, <2>2, <2>3 DEF extract_zip
<1>6. CASE Extracted(f)
  <2>1. open = {f} /\ open' = {} /\ f \in todo
    BY <1>3, <1>6 DEF Extracted
  <2>2. CASE /\ file' = [file EXCEPT ![f] = "good"] /\ todo' = todo \ {f}
             /\ pc' = IF todo = {f} THEN "deps" ELSE "extract"
             /\ UNCHANGED <<faults, cut>>
    <3>1. /\ file' \in [Files -> Content] /\ file'[f] = "good"
          /\ \A g \in Files \ {f} : file'[g] = file[g]
      BY <1>1, <2>2
    <3>2. pc' = "deps" => todo' = {}
      BY <2>2
    <3>3. Booted
      BY <1>1, <1>2, <1>3, <2>1, <2>2, <3>1, <3>2, BootMoves
    <3>4. Unpacked(Parts \ todo)' /\ Startable'
      BY <1>1, <1>3, <1>4, <2>2, <3>1 DEF Unpacked, Runnable
    <3>5. pc' = "deps" => Unpacked(Parts)'
      BY <3>2, <3>4 DEF Unpacked
    <3> QED
      BY <2>2, <3>3, <3>4, <3>5 DEF BootInv
  <2>3. CASE file' = [file EXCEPT ![f] = "part"] /\ cut' = cut \cup todo /\ Exit /\ Wrong
    <3>1. pc' = "idle" /\ todo' = {}
      BY <2>3 DEF Exit, Fail
    <3>2. /\ file' \in [Files -> Content]
          /\ \A g \in Files \ {f} : file'[g] = file[g]
      BY <1>1, <2>3
    <3>3. Booted
      BY <1>1, <1>2, <1>3, <2>1, <2>3, <3>1, <3>2, BootMoves
    <3>4. Unpacked(Parts)' /\ Startable'
      BY <1>1, <1>3, <1>4, <2>1, <2>3, <3>2 DEF Unpacked, Runnable
    <3> QED
      BY <3>1, <3>3, <3>4 DEF BootInv
  <2> QED
    BY <1>6, <2>2, <2>3 DEF Extracted
<1> QED
  BY <1>5, <1>6

\* A bootstrapper that dies in its exchange, or while it unpacks, is in cut.
LEMMA KilledKept ==
  ASSUME Boot, BootInv, Killed
  PROVE  Booted /\ BootInv'
<1>1. /\ TypeOK /\ Installed \subseteq Files
      /\ Parts = {"launcher", "data"} /\ Parts \subseteq Installed
      /\ "part" \in Content /\ file \in [Files -> Content] /\ cut \subseteq Files
      /\ "boot" \in Files /\ "zip" \in Files
  BY InstalledIs DEF Boot, TypeOK, Content, Installed
<1>2. /\ faults' \in 0..play.faults /\ pc' = "idle" /\ todo' = {} /\ open' = {}
      /\ pc \notin {"idle", "started"}
      /\ cut' = cut \cup (IF Runnable THEN {} ELSE {"boot"})
                    \cup (IF pc = "extract" THEN todo ELSE {})
                    \cup (IF pc = "verify" /\ file["zip"] = "good" THEN Parts ELSE {})
      /\ UNCHANGED <<play, listed, ignored>>
  BY PlayIs DEF Killed, Wrong, Exit, Fail, bootVars, Boot, TypeOK
<1>3. PICK halved \in SUBSET open :
         file' = [f \in Files |-> IF f \in halved THEN "part" ELSE file[f]]
  BY DEF Killed
<1>4. halved \subseteq todo /\ todo \subseteq Parts /\ (pc # "extract" => halved = {})
  BY BootPlaces
<1>5. /\ file' \in [Files -> Content]
      /\ \A f \in Files \ halved : file'[f] = file[f]
  BY <1>1, <1>3
<1>6. Booted
  BY <1>1, <1>2, <1>4, <1>5, BootMoves
<1>7. Runnable' \/ "boot" \in cut' \cup ignored'
  <2>1. file'["boot"] = file["boot"]
    BY <1>1, <1>4, <1>5
  <2> QED
    BY <1>2, <2>1 DEF Runnable
<1>8. file'["zip"] = "good" => Unpacked(Parts)'
  <2>1. file'["zip"] = file["zip"]
    BY <1>1, <1>4, <1>5
  <2>2. CASE pc = "extract"
    <3>1. Unpacked(Parts \ todo)
      BY <2>2 DEF BootInv
    <3>2. ASSUME NEW f \in Parts
          PROVE  file'[f] = "good" \/ f \in cut'
      <4>1. CASE f \in todo
        BY <1>2, <2>2, <4>1
      <4>2. CASE f \notin todo
        BY <1>1, <1>2, <1>4, <1>5, <3>1, <4>2 DEF Unpacked
      <4> QED
        BY <4>1, <4>2
    <3> QED
      BY <3>2 DEF Unpacked
  <2>3. CASE pc = "verify"
    BY <1>2, <2>1, <2>3 DEF Unpacked
  <2>4. CASE pc \notin {"extract", "verify"}
    BY <1>1, <1>2, <1>4, <1>5, <2>1, <2>4 DEF Unpacked, BootInv
  <2> QED
    BY <2>2, <2>3, <2>4
<1> QED
  BY <1>2, <1>6, <1>7, <1>8 DEF BootInv

\* A release makes the archive an old one.
LEMMA PublishKept ==
  ASSUME Boot, BootInv, Publish
  PROVE  Booted /\ BootInv'
<1>1. /\ TypeOK /\ Installed \subseteq Files /\ "boot" \in Installed /\ "zip" \in Installed
      /\ "old" \in Content /\ file \in [Files -> Content] /\ cut \subseteq Files
  BY InstalledIs DEF Boot, TypeOK, Content, Installed
<1>2. /\ pc = "idle" /\ UNCHANGED <<play, listed, ignored, pc, todo, open, faults, cut>>
      /\ file' = [f \in Files |-> IF f \in Installed /\ file[f] = "good" THEN "old" ELSE file[f]]
  BY DEF Publish, bootVars
<1>3. /\ file' \in [Files -> Content]
      /\ \A f \in Files \ Installed : file'[f] = file[f]
      /\ file'["zip"] # "good"
      /\ Runnable => Runnable'
  BY <1>1, <1>2 DEF Runnable
<1>4. open = {} /\ todo = {} /\ faults \in 0..play.faults
  BY <1>2, BootPlaces DEF Boot, TypeOK
<1>5. Booted
  BY <1>1, <1>2, <1>3, <1>4, BootMoves
<1> QED
  BY <1>2, <1>3, <1>5 DEF BootInv

\* Every step of the bootstrapper keeps its invariant.
LEMMA BootStepKept ==
  ASSUME Boot, BootInv, BootNext
  PROVE  Booted /\ BootInv'
BY SelfKept, AssetKept, ExtractKept, KilledKept, PublishKept DEF BootNext, BootStep

-----------------------------------------------------------------------------
(* The invariant of both, and the theorems.                                *)

IInv == /\ TypeOK /\ Control
        /\ play.route # "start" => GameInv /\ file["boot"] = "good"
        /\ play.route = "start" => BootInv

\* The invariant of both, from the beginning.
LEMMA Begun ==
  ASSUME Init
  PROVE  IInv
<1>1. /\ play \in Plays /\ pc = "idle" /\ todo = {} /\ open = {}
      /\ cut = {} /\ ignored = {} /\ listed = {} /\ faults = 0
      /\ file = [f \in Files |-> IF f \in Given \cup {"boot"} THEN "good" ELSE "absent"]
  BY DEF Init
<1>2. TypeOK
  <2>1. 0 \in 0..play.faults
    BY <1>1, PlayAssumption
  <2> QED
    BY <1>1, <2>1 DEF TypeOK, Content
<1>3. Control
  BY <1>1, <1>2, PlayIs DEF Control, Reached, Common, Deobfuscating
<1>4. GameInv /\ file["boot"] = "good"
  <2>1. "boot" \in Files /\ \A f \in VLibs : file[f] \in {"absent", "good"}
    BY <1>1, Names, InstalledIs
  <2> QED
    BY <1>1, <2>1 DEF GameInv, ClientIn, LibrariesFit, LibraryFits, InstallerIn, PatchIn, JarsIn,
                      Later, Patched
<1>5. BootInv
  <2>1. "boot" \in Files /\ "zip" \in Files /\ Parts \subseteq Files
    BY InstalledIs DEF Installed
  <2>2. file["boot"] = "good"
    BY <1>1, <2>1
  <2>3. file["zip"] = "good" => Unpacked(Parts)
    <3>1. "zip" \in Given => Parts \subseteq Given
      BY FileAssumption
    <3> QED
      BY <1>1, <2>1, <3>1 DEF Unpacked
  <2> QED
    BY <1>1, <2>2, <2>3 DEF BootInv, Runnable
<1> QED
  BY <1>2, <1>3, <1>4, <1>5 DEF IInv

\* The launcher never steps where the bootstrapper is, and the other way round.
LEMMA PlaceOfGame ==
  ASSUME Next
  PROVE  play.route # "start" \/ pc \notin {"idle"} \cup Boots
<1> USE DEF Boots
<1>1. CASE Launch \/ VersionJson \/ ClientJar \/ Crash
  BY <1>1 DEF Launch, VersionJson, ClientJar, Crash
<1>2. CASE JavaInstalled \/ JavaMissing \/ \E f \in JavaFiles : JavaFetch(f) \/ JavaFetched(f)
  BY <1>2 DEF JavaInstalled, JavaMissing, JavaFetch, JavaFetched, AtJava
<1>3. CASE \/ MappedCached \/ Mappings \/ MappingsFetched
           \/ TinyCached \/ Convert \/ Converted \/ Remap \/ Remapped
  BY <1>3 DEF MappedCached, Mappings, MappingsFetched, TinyCached, Convert, Converted,
              Remap, Remapped, StartTool
<1>4. CASE \/ LibrariesStart \/ LibrariesVerify \/ NativesDone
           \/ \E f \in VLibs : LibrariesLand(f) \/ Native(f) \/ NativeFetched(f)
  BY <1>4 DEF LibrariesStart, LibrariesVerify, NativesDone, LibrariesLand, Native, NativeFetched,
              PoolStart, PoolLand, LoopDone
<1>5. CASE AssetIndex \/ AssetIndexFetched \/ AssetsStart \/ AssetsDone
           \/ \E f \in Assets : AssetsLand(f)
  BY <1>5 DEF AssetIndex, AssetIndexFetched, AssetsStart, AssetsDone, AssetsLand, PoolStart,
              PoolLand
<1>6. CASE Profile \/ ProfileFetched \/ Installer \/ InstallerFetched \/ InstallLibsDone
           \/ \E f \in PLibs : InstallLib(f) \/ InstallLibFetched(f)
  BY <1>6 DEF Profile, ProfileFetched, Installer, InstallerFetched, InstallLibsDone, LoopDone,
              InstallLib, InstallLibFetched
<1>7. CASE ProcessorSkipped \/ ProcessorUnreadable \/ RunProcessor \/ ProcessorDone
  BY <1>7 DEF ProcessorSkipped, ProcessorUnreadable, RunProcessor, ProcessorDone, StartTool
<1>8. CASE MainClass \/ LoaderLibsDone \/ GameOver
           \/ \E f \in LLibs : LoaderLib(f) \/ LoaderLibFetched(f)
  BY <1>8 DEF MainClass, LoaderLibsDone, GameOver, LoaderLib, LoaderLibFetched, LoopDone
<1> QED
  BY <1>1, <1>2, <1>3, <1>4, <1>5, <1>6, <1>7, <1>8 DEF Next, Step

LEMMA PlaceOfBoot ==
  ASSUME BootNext
  PROVE  play.route = "start" \/ pc \in Boots
BY DEF BootNext, BootStep, Boots, Start, self_update, SelfFetched, SetAside, Replace, Stamp,
       Relaunch, ensure_zip_asset, download, Verify, extract_zip, Extracted, check,
       spawn_detached, Done, Killed, Publish

\* Whose step it is, and what it keeps.
LEMMA Stepped ==
  ASSUME IInv, Next \/ BootNext
  PROVE  IInv' /\ \A f \in Files \ Renewed : file[f] = "good" => file'[f] = "good"
<1>1. TypeOK /\ Control
  BY DEF IInv
<1>2. CASE play.route = "start"
  <2>1. Boot /\ BootInv
    BY <1>1, <1>2 DEF Boot, IInv
  <2>2. BootNext
    BY <2>1, <1>2, BootPlaces, PlaceOfGame
  <2>3. Booted /\ BootInv'
    BY <2>1, <2>2, BootStepKept
  <2> QED
    BY <1>2, <2>3 DEF Booted, IInv, Renewed
<1>3. CASE play.route # "start"
  <2>1. Game /\ GameInv
    BY <1>1, <1>3 DEF Game, IInv
  <2>2. pc \notin Boots
    BY <2>1, GamePlaces DEF Boots, Common, Deobfuscating
  <2>3. Next
    BY <1>3, <2>2, PlaceOfBoot
  <2>4. Kept /\ GameInv'
    BY <2>1, <2>3, GameStep
  <2>5. "boot" \in Files \ Touched(pc)
    BY <2>2, Names DEF Touched, Own, Installed, Named, JavaFiles, Boots
  <2> QED
    BY <1>3, <2>4, <2>5 DEF Kept, Disk, IInv
<1> QED
  BY <1>2, <1>3

\* The invariant holds in every behaviour.
LEMMA Inductive == AllSpec => []IInv
<1>1. Init => IInv
  BY Begun
<1>2. IInv /\ [Next \/ BootNext]_vars => IInv'
  <2> SUFFICES ASSUME IInv, [Next \/ BootNext]_vars PROVE IInv'
    OBVIOUS
  <2>1. CASE Next \/ BootNext
    BY <2>1, Stepped
  <2>2. CASE UNCHANGED vars
    <3>1. TypeOK' /\ Control'
      BY <2>2 DEF vars, IInv, TypeOK, Control, Reached
    <3>2. GameInv <=> GameInv'
      BY <2>2 DEF vars, GameInv, ClientIn, LibrariesFit, LibraryFits, InstallerIn, PatchIn, JarsIn
    <3>3. BootInv <=> BootInv'
      BY <2>2 DEF vars, BootInv, Runnable, Unpacked
    <3> QED
      BY <2>2, <3>1, <3>2, <3>3 DEF vars, IInv
  <2> QED
    BY <2>1, <2>2
<1> QED
  BY <1>1, <1>2, PTL DEF AllSpec

\* Every file holds a content, every place is a place, and the faults are within
\* their bound, in every behaviour of a launch or of an installation (TypeOK).
THEOREM TypeCorrect == AllSpec => []TypeOK
<1>1. IInv => TypeOK
  BY DEF IInv
<1> QED
  BY <1>1, Inductive, PTL

\* For every set of libraries and every number of failures, error pages and
\* crashes, the game is started on the published client.jar, and on no other
\* vanilla library than the published one, unless the launcher died between opening
\* it and checking its digest or it was fetched for the loader, whose answers nobody
\* looks at (resolve_version_json, download_libraries, extract_all_natives,
\* download_cjson_libraries, download_pending_libraries).
THEOREM RunsPublishedHolds == AllSpec => []RunsPublished
<1>1. IInv => RunsPublished
  <2> SUFFICES ASSUME IInv, pc = "run"
               PROVE  /\ file["client"] = "good"
                      /\ \A f \in VLibs : file[f] \in {"absent", "good"} \/ f \in cut \cup ignored
    BY DEF RunsPublished
  <2>1. Game /\ GameInv
    <3>1. play.route # "start"
      BY DEF IInv, Control, Reached, Boots
    <3> QED
      BY <3>1 DEF IInv, Game
  <2> QED
    BY <2>1 DEF GameInv, ClientIn, LibrariesFit, LibraryFits, Later
<1> QED
  BY <1>1, Inductive, PTL

\* For every set of install-time libraries, a Forge game is started fully patched
\* and from an installer that could be read, and its processors meet no error page
\* saved as a jar (fetch_forge_profile, run_processor).
THEOREM LoaderKeptHolds == AllSpec => []LoaderKept
<1>1. IInv => LoaderKept
  <2> SUFFICES ASSUME IInv, pc \in {"run", "process"} PROVE LoaderKept
    BY DEF LoaderKept
  <2>1. GameInv
    <3>1. play.route # "start"
      BY DEF IInv, Control, Reached, Boots
    <3> QED
      BY <3>1 DEF IInv
  <2> QED
    BY <2>1 DEF GameInv, InstallerIn, PatchIn, JarsIn, Patched, LoaderKept
<1> QED
  BY <1>1, Inductive, PTL

\* However often and wherever the bootstrapper dies or a release is published,
\* there is one the player can start unless one died in the exchange, or putting the
\* old one back or giving the new one its permission failed without anybody looking,
\* and the launcher it starts is wholly of one release unless unpacking it was cut
\* short (self_update, make_executable, ensure_zip_asset).
THEOREM InstallWholeHolds == AllSpec => []InstallWhole
<1>1. IInv => InstallWhole
  <2> SUFFICES ASSUME IInv PROVE InstallWhole
    OBVIOUS
  <2>1. CASE play.route = "start"
    BY <2>1 DEF IInv, BootInv, Unpacked, InstallWhole
  <2>2. CASE play.route # "start"
    <3>1. pc # "started" /\ Runnable
      BY <2>2, GamePlaces DEF IInv, Game, Runnable, Common, Deobfuscating
    <3> QED
      BY <3>1 DEF InstallWhole
  <2> QED
    BY <2>1, <2>2
<1> QED
  BY <1>1, Inductive, PTL

\* No step of a launch, of the bootstrapper or of a crash damages a file that was
\* complete, those aside that every launch fetches again (download_file,
\* download_files_parallel, java_ensure).
THEOREM GoodKeptHolds == AllSpec => GoodKept
<1>1. /\ IInv /\ [Next \/ BootNext]_vars
      => [\A f \in Files \ (Installed \cup {"vjson", "client", "profile", "jre"}) :
            file[f] = "good" => file'[f] = "good"]_vars
  BY Stepped DEF Renewed
<1> QED
  BY <1>1, Inductive, PTL DEF AllSpec, GoodKept
-----------------------------------------------------------------------------
(* Folds over lists.                                                       *)

\* Every set of numbers that is not empty has a least one.
LEMMA LeastOf ==
  ASSUME NEW T \in SUBSET Nat, T # {}
  PROVE  \E m \in T : \A k \in T : m <= k
<1> DEFINE Upto == {0..k : k \in T}
           R == StrictSubsetOrdering(Nat)
           F == FiniteSubsetsOf(Nat)
<1>1. ASSUME NEW k \in T PROVE 0..k \in F
  <2>1. 0 \in Int /\ k \in Int
    OBVIOUS
  <2>2. IsFiniteSet(0..k)
    BY <2>1, FS_Interval
  <2>3. 0..k \in SUBSET Nat
    OBVIOUS
  <2> QED
    BY <2>2, <2>3 DEF FiniteSubsetsOf
<1>2. Upto \subseteq F /\ Upto # {}
  BY <1>1
<1>3. IsWellFoundedOn(R, F)
  BY FS_StrictSubsetOrderingWellFounded
<1>4. \E x \in Upto : \A y \in Upto : ~(<<y, x>> \in R)
  <2> HIDE DEF Upto, R, F
  <2> QED
    BY <1>2, <1>3, WFMin
<1>5. PICK m \in T : \A k \in T : ~(<<0..k, 0..m>> \in R)
  BY <1>4
<1>6. ASSUME NEW k \in T, k < m PROVE FALSE
  <2>1. k \in Nat /\ m \in Nat
    OBVIOUS
  <2>2. 0..k \in SUBSET Nat /\ 0..m \in SUBSET Nat /\ 0..k \subseteq 0..m
    BY <2>1, <1>6
  <2>3. m \in 0..m /\ m \notin 0..k
    BY <2>1, <1>6
  <2>4. <<0..k, 0..m>> \in R
    BY <2>2, <2>3 DEF StrictSubsetOrdering
  <2> QED
    BY <2>4, <1>5
<1>7. \A k \in T : m <= k
  BY <1>6
<1> QED
  BY <1>7

\* Counting up to n: what holds at 0, and of i when it holds of i - 1.
LEMMA Climb ==
  ASSUME NEW n \in Nat, NEW T, 0 \in T, \A i \in 1..n : i - 1 \in T => i \in T
  PROVE  0..n \subseteq T
<1> DEFINE Out == (0..n) \ T
<1> SUFFICES ASSUME Out # {} PROVE FALSE
  OBVIOUS
<1>1. Out \in SUBSET Nat
  OBVIOUS
<1>2. \E m \in Out : \A k \in Out : m <= k
  <2> HIDE DEF Out
  <2> QED
    BY <1>1, LeastOf
<1>3. PICK m \in Out : \A k \in Out : m <= k
  BY <1>2
<1>4. m \in 1..n /\ m - 1 \in 0..n /\ ~(m <= m - 1)
  BY <1>3
<1>5. m - 1 \in T
  BY <1>3, <1>4
<1> QED
  BY <1>3, <1>4, <1>5

\* The last of the positions up to n.
LEMMA LastIs ==
  ASSUME NEW n \in Nat \ {0}, NEW s \in SUBSET (1..n), n \in s
  PROVE  Max(s) = n
<1>1. \A y \in s : n >= y
  OBVIOUS
<1>2. \A x \in s : (\A y \in s : x >= y) => x = n
  OBVIOUS
<1> DEFINE P(x) == x \in s /\ \A y \in s : x >= y
<1>3. P(n)
  BY <1>1
<1>4. P(CHOOSE x : P(x))
  BY <1>3, Zenon
<1>5. Max(s) = CHOOSE x : P(x)
  BY DEF Max
<1> QED
  BY <1>2, <1>4, <1>5

\* A set of positions that is not empty has a last one.
LEMMA LastIn ==
  ASSUME NEW n \in Nat, NEW s \in SUBSET (1..n), s # {}
  PROVE  Max(s) \in s
<1> DEFINE P(x) == x \in s /\ \A y \in s : x >= y
           Back == {n - k : k \in s}
<1>1. Back \in SUBSET Nat /\ Back # {}
  <2>1. \A k \in s : k \in 1..n
    OBVIOUS
  <2>2. \A k \in 1..n : n - k \in Nat
    OBVIOUS
  <2> QED
    BY <2>1, <2>2
<1>2. \E m \in Back : \A k \in Back : m <= k
  <2> HIDE DEF Back
  <2> QED
    BY <1>1, LeastOf
<1>3. PICK x \in s : \A y \in s : n - x <= n - y
  BY <1>2
<1>4. ASSUME NEW y \in s PROVE x >= y
  <2>1. n - x <= n - y /\ x \in Nat /\ y \in Nat
    BY <1>3
  <2> QED
    BY <2>1
<1>5. P(x)
  BY <1>4
<1>6. P(CHOOSE z : P(z))
  BY <1>5, Zenon
<1>7. Max(s) = CHOOSE z : P(z)
  BY DEF Max
<1> QED
  BY <1>6, <1>7

\* A fold takes a list of n elements from its first to its last: it[s] is what the
\* positions in s come to, from a, when step is what one more position does.
Goes(it, S, a, n, step) ==
    /\ it \in [SUBSET (1..n) -> S]
    /\ \A s \in SUBSET (1..n) :
           it[s] = IF s = {} THEN a ELSE step[<<it[s \ {Max(s)}], Max(s)>>]

\* There is such a way through for every step on values of a set that has a.
LEMMA FoldExists ==
  ASSUME NEW S, NEW a \in S, NEW n \in Nat, NEW step \in [S \X (1..n) -> S]
  PROVE  \E it : Goes(it, S, a, n, step)
<1> DEFINE Good(k, it) == \A s \in SUBSET (1..k) :
                     it[s] = IF s = {} THEN a ELSE step[<<it[s \ {Max(s)}], Max(s)>>]
           T == {k \in 0..n : \E it \in [SUBSET (1..k) -> S] : Good(k, it)}
<1>1. 0 \in T
  <2> DEFINE it == [s \in SUBSET (1..0) |-> a]
  <2>1. \A s \in SUBSET (1..0) : s = {}
    OBVIOUS
  <2>2. it \in [SUBSET (1..0) -> S]
    OBVIOUS
  <2>3. Good(0, it)
    BY <2>1
  <2> HIDE DEF it, Good
  <2>4. 0 \in 0..n
    OBVIOUS
  <2> QED
    BY <2>2, <2>3, <2>4
<1>2. ASSUME NEW k \in 1..n, k - 1 \in T PROVE k \in T
  <2>1. PICK it \in [SUBSET (1..(k - 1)) -> S] : Good(k - 1, it)
    BY <1>2
  <2> DEFINE up == [s \in SUBSET (1..k) |->
                       IF k \in s THEN step[<<it[s \ {k}], k>>] ELSE it[s]]
  <2>2. ASSUME NEW s \in SUBSET (1..k)
        PROVE  /\ s \ {k} \in SUBSET (1..(k - 1)) /\ s \ {k} \in SUBSET (1..k)
               /\ k \notin s => s \in SUBSET (1..(k - 1)) /\ s \ {k} = s
    OBVIOUS
  <2>3. ASSUME NEW s \in SUBSET (1..k) PROVE up[s] \in S
    BY <2>2
  <2>4. ASSUME NEW s \in SUBSET (1..k), k \in s
        PROVE  up[s] = step[<<up[s \ {Max(s)}], Max(s)>>] /\ s # {}
    <3>1. Max(s) = k
      BY <2>4, LastIs
    <3>2. up[s] = step[<<it[s \ {k}], k>>] /\ up[s \ {k}] = it[s \ {k}]
      BY <2>2, <2>4
    <3> QED
      BY <3>1, <3>2, <2>4
  <2>5. ASSUME NEW s \in SUBSET (1..k), k \notin s, s # {}
        PROVE  up[s] = step[<<up[s \ {Max(s)}], Max(s)>>]
    <3>1. s \in SUBSET (1..(k - 1)) /\ up[s] = it[s]
      BY <2>2, <2>5
    <3>2. s \ {Max(s)} \in SUBSET (1..k) /\ k \notin s \ {Max(s)}
      BY <2>5
    <3>3. up[s \ {Max(s)}] = it[s \ {Max(s)}]
      BY <3>2
    <3> QED
      BY <3>1, <3>3, <2>1, <2>5
  <2>6. ASSUME NEW s \in SUBSET (1..k), s = {} PROVE up[s] = a
    <3>1. {} \in SUBSET (1..(k - 1)) /\ k \notin {}
      OBVIOUS
    <3> QED
      BY <3>1, <2>1, <2>6
  <2>7. up \in [SUBSET (1..k) -> S]
    BY <2>3
  <2> HIDE DEF up
  <2>8. Good(k, up)
    BY <2>4, <2>5, <2>6
  <2> HIDE DEF Good
  <2>9. k \in 0..n
    OBVIOUS
  <2> QED
    BY <2>7, <2>8, <2>9
<1> HIDE DEF T
<1>3. 0..n \subseteq T
  BY <1>1, <1>2, Climb
<1>4. n \in T
  BY <1>3
<1>5. \E it \in [SUBSET (1..n) -> S] : Good(n, it)
  <2> HIDE DEF Good
  <2> QED
    BY <1>4 DEF T
<1> QED
  BY <1>5 DEF Goes

\* The sets a fold passes through: the first i positions.
LEMMA Segment ==
  ASSUME NEW n \in Nat, NEW i \in 1..n
  PROVE  /\ 1..i \in SUBSET (1..n) /\ 1..i # {}
         /\ Max(1..i) = i /\ (1..i) \ {Max(1..i)} = 1..(i - 1)
<1>1. i \in Nat \ {0} /\ i \in 1..i /\ 1..i \in SUBSET (1..i)
  OBVIOUS
<1>2. Max(1..i) = i
  BY <1>1, LastIs
<1>3. (1..i) \ {i} = 1..(i - 1)
  OBVIOUS
<1> QED
  BY <1>1, <1>2, <1>3

\* On the way the last of the positions is one of them, and what was there
\* before it is a value.
LEMMA GoesThrough ==
  ASSUME NEW S, NEW a, NEW n \in Nat, NEW step, NEW it, Goes(it, S, a, n, step),
         NEW s \in SUBSET (1..n), s # {}
  PROVE  Max(s) \in 1..n /\ it[s \ {Max(s)}] \in S
<1>1. Max(s) \in s
  BY LastIn
<1>2. s \ {Max(s)} \in SUBSET (1..n)
  OBVIOUS
<1> QED
  BY <1>1, <1>2 DEF Goes

\* What it comes to along the list, one element after the other.
Along(at, S, a, n, step) ==
    /\ at \in [0..n -> S] /\ at[0] = a
    /\ \A i \in 1..n : at[i] = step[<<at[i - 1], i>>]

\* What is known of what a fold comes to on the first positions, of its choosing.
Rises(g, S, a, n, step) ==
    /\ a \in S /\ step \in [S \X (1..n) -> S] /\ g[{}] = a
    /\ \A i \in 1..n : g[1..(i - 1)] \in S => g[1..i] = step[<<g[1..(i - 1)], i>>]

\* It is then what it comes to along the list.
LEMMA Rungs ==
  ASSUME NEW S, NEW a, NEW n \in Nat, NEW step, NEW g, Rises(g, S, a, n, step)
  PROVE  \E at : Along(at, S, a, n, step) /\ g[1..n] = at[n]
<1> USE DEF Rises
<1> DEFINE at == [i \in 0..n |-> g[1..i]]
           T == {i \in 0..n : at[i] \in S}
<1>1. at[0] = a /\ at[n] = g[1..n]
  <2>1. 1..0 = {} /\ 0 \in 0..n /\ n \in 0..n
    OBVIOUS
  <2> QED
    BY <2>1
<1>2. ASSUME NEW i \in 1..n PROVE /\ i \in 0..n /\ i - 1 \in 0..n
                                  /\ at[i] = g[1..i] /\ at[i - 1] = g[1..(i - 1)]
  OBVIOUS
<1> HIDE DEF at
<1>3. 0 \in T
  BY <1>1
<1>4. ASSUME NEW i \in 1..n, i - 1 \in T PROVE i \in T
  BY <1>2, <1>4
<1>5. 0..n \subseteq T
  <2> HIDE DEF T
  <2> QED
    BY <1>3, <1>4, Climb
<1>6. \A i \in 0..n : at[i] \in S
  BY <1>5
<1>7. at \in [0..n -> S]
  BY <1>6 DEF at
<1>8. \A i \in 1..n : at[i] = step[<<at[i - 1], i>>]
  BY <1>2, <1>6
<1> QED
  BY <1>1, <1>7, <1>8 DEF Along

\* The sum of a list of numbers.
LEMMA TotalIs ==
  ASSUME NEW l \in Seq(Nat)
  PROVE  \E at \in [0..Len(l) -> Nat] :
            /\ at[0] = 0 /\ Total(l) = at[Len(l)]
            /\ \A i \in 1..Len(l) : at[i] = at[i - 1] + l[i]
<1> DEFINE n == Len(l)
           step == [p \in Nat \X (1..n) |-> p[1] + l[p[2]]]
           Folds(it) == it = [s \in SUBSET (1..n) |->
                                 IF s = {} THEN 0 ELSE it[s \ {Max(s)}] + l[Max(s)]]
           g == CHOOSE it : Folds(it)
<1>1. 0 \in Nat /\ n \in Nat /\ DOMAIN l = 1..n /\ \A i \in 1..n : l[i] \in Nat
  OBVIOUS
<1>2. step \in [Nat \X (1..n) -> Nat]
  BY <1>1
<1>3. \A x \in Nat, i \in 1..n : step[<<x, i>>] = x + l[i]
  OBVIOUS
<1> HIDE DEF step, n
<1>4. PICK it : Goes(it, Nat, 0, n, step)
  BY <1>1, <1>2, FoldExists, Zenon
<1>5. \A s \in SUBSET (1..n) : s # {} => Max(s) \in 1..n /\ it[s \ {Max(s)}] \in Nat
  BY <1>1, <1>4, GoesThrough, Zenon
<1>6. Folds(it)
  BY <1>3, <1>4, <1>5 DEF Goes
<1>7. Folds(g)
  <2> HIDE DEF Folds
  <2> QED
    BY <1>6, Zenon
<1>8. Total(l) = g[1..n]
  BY <1>1 DEF Total, FoldLeft, MapThenFoldSet
<1> HIDE DEF g
<1>9. g[{}] = 0
  BY <1>7
<1>10. ASSUME NEW i \in 1..n
       PROVE  g[1..(i - 1)] \in Nat => g[1..i] = step[<<g[1..(i - 1)], i>>]
  <2>1. /\ 1..i \in SUBSET (1..n) /\ 1..i # {}
        /\ Max(1..i) = i /\ (1..i) \ {Max(1..i)} = 1..(i - 1)
    BY <1>1, Segment
  <2>2. g[1..i] = g[1..(i - 1)] + l[i]
    BY <1>7, <2>1
  <2> QED
    BY <1>3, <2>2
<1>11. PICK at : Along(at, Nat, 0, n, step) /\ g[1..n] = at[n]
  <2>1. \A i \in 1..n : g[1..(i - 1)] \in Nat => g[1..i] = step[<<g[1..(i - 1)], i>>]
    BY <1>10
  <2>2. 0 \in Nat /\ n \in Nat
    BY <1>1
  <2>3. Rises(g, Nat, 0, n, step)
    BY <1>2, <1>9, <2>1, <2>2 DEF Rises
  <2> QED
    BY <2>2, <2>3, Rungs
<1>12. /\ at \in [0..n -> Nat] /\ at[0] = 0
       /\ \A i \in 1..n : at[i - 1] \in Nat /\ at[i] = step[<<at[i - 1], i>>]
  <2>1. \A i \in 1..n : i - 1 \in 0..n
    BY <1>1
  <2> QED
    BY <1>11, <2>1 DEF Along
<1>13. \A i \in 1..n : at[i] = at[i - 1] + l[i]
  BY <1>3, <1>12
<1> QED
  BY <1>8, <1>11, <1>12, <1>13 DEF n

-----------------------------------------------------------------------------
(* The text of the class path.                                             *)

\* How much of the class path is written: bytes, libraries, and whether one did not
\* fit.
Texted == [len : Nat, libs : Nat, full : BOOLEAN]

\* What one more name makes of the text.
Longer(p, m) ==
    IF p.full THEN p
    ELSE IF m + 1 >= PathRoom - p.len THEN [p EXCEPT !.full = TRUE, !.len = PathRoom - 1]
    ELSE [p EXCEPT !.len = p.len + m + 1, !.libs = p.libs + 1]

\* One more name makes it another such.
LEMMA LongerType ==
  ASSUME NEW p \in Texted, NEW m \in Nat, PathRoom # 0
  PROVE  Longer(p, m) \in Texted
<1>1. PathRoom \in Nat \ {0}
  BY RoomAssumption
<1>2. p.len \in Nat /\ p.libs \in Nat /\ p.full \in BOOLEAN
  BY DEF Texted
<1>3. CASE p.full
  BY <1>3 DEF Longer
<1>4. CASE ~p.full /\ m + 1 >= PathRoom - p.len
  <2>1. Longer(p, m) = [len |-> PathRoom - 1, libs |-> p.libs, full |-> TRUE]
    BY <1>4 DEF Longer, Texted
  <2>2. PathRoom - 1 \in Nat
    BY <1>1
  <2> QED
    BY <1>2, <2>1, <2>2 DEF Texted
<1>5. CASE ~p.full /\ ~(m + 1 >= PathRoom - p.len)
  <2>1. Longer(p, m) = [len |-> p.len + m + 1, libs |-> p.libs + 1, full |-> p.full]
    BY <1>5 DEF Longer, Texted
  <2>2. p.len + m + 1 \in Nat /\ p.libs + 1 \in Nat
    BY <1>2
  <2> QED
    BY <1>2, <2>1, <2>2 DEF Texted
<1> QED
  BY <1>3, <1>4, <1>5

\* The text from the start on, one library after the other.
Grows(at, start, libs) ==
    /\ at \in [0..Len(libs) -> Texted]
    /\ at[0] = [len |-> start, libs |-> 0, full |-> FALSE]
    /\ \A i \in 1..Len(libs) : at[i] = Longer(at[i - 1], libs[i])

\* The class path, one name after the other.
LEMMA ClasspathIs ==
  ASSUME NEW agent \in Nat, agent + 1 < PathRoom, NEW libs \in Seq(Nat), NEW client \in Nat,
         NEW start, start = IF agent # 0 THEN agent + 1 ELSE 0
  PROVE  \E at : /\ Grows(at, start, libs)
                 /\ build_classpath(agent, libs, client) =
                        [libs |-> at[Len(libs)].libs, client |-> client < PathRoom - at[Len(libs)].len]
<1> DEFINE n == Len(libs)
           a == [len |-> start, libs |-> 0, full |-> FALSE]
           step == [p \in Texted \X (1..n) |-> Longer(p[1], libs[p[2]])]
           Folds(it) == it = [s \in SUBSET (1..n) |->
                                 IF s = {} THEN a ELSE Longer(it[s \ {Max(s)}], libs[Max(s)])]
           g == CHOOSE it : Folds(it)
<1>0. PathRoom \in Nat /\ PathRoom # 0 /\ start \in Nat
  BY RoomAssumption
<1>1. a \in Texted /\ n \in Nat /\ DOMAIN libs = 1..n /\ \A i \in 1..n : libs[i] \in Nat
  BY <1>0 DEF Texted
<1>2. step \in [Texted \X (1..n) -> Texted]
  <2>1. ASSUME NEW p \in Texted \X (1..n) PROVE Longer(p[1], libs[p[2]]) \in Texted
    BY <1>0, <1>1, LongerType
  <2> QED
    BY <2>1
<1>3. \A x \in Texted, i \in 1..n : step[<<x, i>>] = Longer(x, libs[i])
  OBVIOUS
<1>8. build_classpath(agent, libs, client) =
          [libs |-> g[1..n].libs, client |-> client < PathRoom - g[1..n].len]
  BY <1>1 DEF build_classpath, FoldLeft, MapThenFoldSet, Longer
<1> HIDE DEF step, n, a
<1>4. PICK it : Goes(it, Texted, a, n, step)
  BY <1>1, <1>2, FoldExists, Zenon
<1>5. \A s \in SUBSET (1..n) : s # {} => Max(s) \in 1..n /\ it[s \ {Max(s)}] \in Texted
  BY <1>1, <1>4, GoesThrough, Zenon
<1>6. Folds(it)
  BY <1>3, <1>4, <1>5 DEF Goes
<1>7. Folds(g)
  <2> HIDE DEF Folds
  <2> QED
    BY <1>6, Zenon
<1> HIDE DEF g
<1>9. g[{}] = a
  BY <1>7
<1>10. ASSUME NEW i \in 1..n
       PROVE  g[1..(i - 1)] \in Texted => g[1..i] = step[<<g[1..(i - 1)], i>>]
  <2>1. /\ 1..i \in SUBSET (1..n) /\ 1..i # {}
        /\ Max(1..i) = i /\ (1..i) \ {Max(1..i)} = 1..(i - 1)
    BY <1>1, Segment
  <2>2. g[1..i] = Longer(g[1..(i - 1)], libs[i])
    BY <1>7, <2>1
  <2> QED
    BY <1>3, <2>2
<1>11. Rises(g, Texted, a, n, step)
  BY <1>1, <1>2, <1>9, <1>10 DEF Rises
<1>12. PICK at : Along(at, Texted, a, n, step) /\ g[1..n] = at[n]
  BY <1>1, <1>11, Rungs
<1>13. /\ at \in [0..n -> Texted] /\ at[0] = a
       /\ \A i \in 1..n : at[i - 1] \in Texted /\ at[i] = step[<<at[i - 1], i>>]
  <2>1. \A i \in 1..n : i - 1 \in 0..n
    BY <1>1
  <2> QED
    BY <1>12, <2>1 DEF Along
<1>14. \A i \in 1..n : at[i] = Longer(at[i - 1], libs[i])
  BY <1>3, <1>13
<1> QED
  BY <1>8, <1>12, <1>13, <1>14 DEF Grows, n, a

\* The text is as long as all that was put into it, and with the first name
\* that does not fit there is no room left.
LEMMA NoneLostHolds == NoneLost
<1> SUFFICES ASSUME NEW t \in Texts
             PROVE  LET cp == build_classpath(t.agent, t.libs, t.client)
                        total == (IF t.agent = 0 THEN 0 ELSE t.agent + 1)
                                 + Total([i \in DOMAIN t.libs |-> t.libs[i] + 1]) + t.client
                    IN  /\ cp.client <=> total < PathRoom
                        /\ cp.client => cp.libs = Len(t.libs)
  BY DEF NoneLost
<1> DEFINE cp == build_classpath(t.agent, t.libs, t.client)
           l == [i \in DOMAIN t.libs |-> t.libs[i] + 1]
           start == IF t.agent # 0 THEN t.agent + 1 ELSE 0
           n == Len(t.libs)
<1>1. /\ t.agent \in 0..(PathRoom - 2) /\ t.libs \in Seq(Nat) /\ t.client \in Nat \ {0}
  <2>1. t \in [agent : 0..(PathRoom - 2), libs : Seq(Nat), client : Nat \ {0}]
    BY InputAssumption
  <2> QED
    BY <2>1
<1>2. /\ PathRoom \in Nat /\ t.agent \in Nat /\ t.agent + 1 < PathRoom
      /\ start \in Nat /\ start < PathRoom
  BY <1>1, RoomAssumption
<1>3. n \in Nat /\ DOMAIN t.libs = 1..n /\ \A i \in 1..n : t.libs[i] \in Nat
  BY <1>1
<1>4. l \in Seq(Nat) /\ Len(l) = n /\ \A i \in 1..n : l[i] = t.libs[i] + 1
  <2>1. l \in [1..n -> Nat]
    BY <1>3
  <2>2. l \in Seq(Nat) /\ Len(l) = n
    BY <1>3, <2>1, IsASeq
  <2> QED
    BY <1>3, <2>2
<1>5. PICK at \in [0..n -> Texted] :
          /\ at[0] = [len |-> start, libs |-> 0, full |-> FALSE]
          /\ \A i \in 1..n : at[i] = Longer(at[i - 1], t.libs[i])
          /\ cp = [libs |-> at[n].libs, client |-> t.client < PathRoom - at[n].len]
  <2> HIDE DEF cp, start
  <2>1. PICK A, L, C, O : A = t.agent /\ L = t.libs /\ C = t.client /\ O = start
    OBVIOUS
  <2>2. /\ A \in Nat /\ A + 1 < PathRoom /\ L \in Seq(Nat) /\ C \in Nat
        /\ O = IF A # 0 THEN A + 1 ELSE 0
    BY <1>1, <1>2, <2>1 DEF start
  <2>3. \E at : /\ Grows(at, O, L)
                /\ build_classpath(A, L, C)
                     = [libs |-> at[Len(L)].libs, client |-> C < PathRoom - at[Len(L)].len]
    BY <2>2, ClasspathIs
  <2> QED
    BY <2>1, <2>3 DEF cp, Grows
<1> HIDE DEF l
<1>6. PICK sum \in [0..n -> Nat] :
          sum[0] = 0 /\ Total(l) = sum[n] /\ \A i \in 1..n : sum[i] = sum[i - 1] + l[i]
  <2>1. PICK k \in Seq(Nat) : k = l
    BY <1>4
  <2>2. \E sum \in [0..Len(k) -> Nat] :
            /\ sum[0] = 0 /\ Total(k) = sum[Len(k)]
            /\ \A i \in 1..Len(k) : sum[i] = sum[i - 1] + k[i]
    BY TotalIs
  <2>3. Len(k) = n
    BY <1>4, <2>1
  <2> QED
    BY <2>1, <2>2, <2>3
<1> HIDE DEF cp, start, n
<1> DEFINE T == {i \in 0..n : /\ at[i].full => /\ at[i].len = PathRoom - 1
                                            /\ start + sum[i] >= PathRoom
                              /\ ~at[i].full => at[i].len = start + sum[i] /\ at[i].libs = i}
<1>7. 0 \in T
  BY <1>2, <1>3, <1>5, <1>6
<1>8. ASSUME NEW i \in 1..n, i - 1 \in T PROVE i \in T
  <2> DEFINE m == t.libs[i]
             p == at[i - 1]
  <2>1. /\ i - 1 \in 0..n /\ i \in 0..n /\ i \in Nat
        /\ at[i] = Longer(p, m) /\ m \in Nat
        /\ sum[i - 1] \in Nat /\ sum[i] = sum[i - 1] + (m + 1)
    <3>1. i - 1 \in 0..n /\ i \in 0..n /\ i \in Nat /\ m \in Nat
      BY <1>3
    <3>2. at[i] = Longer(p, m)
      BY <1>5
    <3>3. l[i] = m + 1
      BY <1>4
    <3>4. sum[i - 1] \in Nat /\ sum[i] = sum[i - 1] + l[i]
      BY <1>6, <3>1
    <3> QED
      BY <3>1, <3>2, <3>3, <3>4
  <2>2. p \in Texted /\ p.len \in Nat /\ p.libs \in Nat /\ p.full \in BOOLEAN
    <3>1. p \in Texted
      BY <1>5, <2>1
    <3> QED
      BY <3>1 DEF Texted
  <2>3. /\ p.full => p.len = PathRoom - 1 /\ start + sum[i - 1] >= PathRoom
        /\ ~p.full => p.len = start + sum[i - 1] /\ p.libs = i - 1
    BY <1>8
  <2> HIDE DEF m, p
  <2>4. CASE p.full
    <3>1. at[i] = p
      BY <2>1, <2>4 DEF Longer
    <3> QED
      BY <1>2, <2>1, <2>3, <2>4, <3>1
  <2>5. CASE ~p.full /\ m + 1 >= PathRoom - p.len
    <3>1. at[i] = [len |-> PathRoom - 1, libs |-> p.libs, full |-> TRUE]
      BY <2>1, <2>2, <2>5 DEF Longer, Texted
    <3>2. start + sum[i] >= PathRoom
      BY <1>2, <2>1, <2>2, <2>3, <2>5
    <3> QED
      BY <2>1, <3>1, <3>2
  <2>6. CASE ~p.full /\ ~(m + 1 >= PathRoom - p.len)
    <3>1. at[i] = [len |-> p.len + m + 1, libs |-> p.libs + 1, full |-> FALSE]
      BY <2>1, <2>2, <2>6 DEF Longer, Texted
    <3>2. p.len + m + 1 = start + sum[i] /\ p.libs + 1 = i
      BY <1>2, <2>1, <2>2, <2>3, <2>6
    <3> QED
      BY <2>1, <3>1, <3>2
  <2> QED
    BY <2>4, <2>5, <2>6
<1>9. n \in T
  <2>1. n \in Nat
    BY <1>3
  <2>2. \A i \in 1..n : i - 1 \in T => i \in T
    BY <1>8
  <2> HIDE DEF T
  <2>3. 0..n \subseteq T
    BY <1>7, <2>1, <2>2, Climb
  <2> QED
    BY <2>1, <2>3
<1>10. /\ cp.libs = at[n].libs /\ (cp.client <=> t.client < PathRoom - at[n].len)
       /\ at[n].len \in Nat /\ sum[n] \in Nat
  <2>1. n \in 0..n /\ at[n] \in Texted
    BY <1>3, <1>5
  <2> QED
    BY <1>5, <1>6, <2>1 DEF Texted
<1>11. /\ cp.client <=> start + sum[n] + t.client < PathRoom
       /\ cp.client => cp.libs = n
  <2>1. CASE at[n].full
    BY <1>1, <1>2, <1>9, <1>10, <2>1
  <2>2. CASE ~at[n].full
    BY <1>1, <1>2, <1>9, <1>10, <2>2
  <2> QED
    BY <2>1, <2>2
<1> QED
  BY <1>6, <1>11 DEF cp, start, n, l

-----------------------------------------------------------------------------
(* The memory and the arguments.                                           *)

\* The greater of two numbers.
LEMMA GreaterOf ==
  ASSUME NEW a \in Int, NEW b \in Int
  PROVE  Max({a, b}) = IF a >= b THEN a ELSE b
<1> DEFINE P(x) == x \in {a, b} /\ \A y \in {a, b} : x >= y
<1>1. \E x : P(x)
  OBVIOUS
<1>2. P(CHOOSE x : P(x))
  BY <1>1, Zenon
<1>3. Max({a, b}) = CHOOSE x : P(x)
  BY DEF Max
<1> QED
  BY <1>2, <1>3

\* The lesser of two numbers.
LEMMA LesserOf ==
  ASSUME NEW a \in Int, NEW b \in Int
  PROVE  Min({a, b}) = IF a <= b THEN a ELSE b
<1> DEFINE P(x) == x \in {a, b} /\ \A y \in {a, b} : x <= y
<1>1. \E x : P(x)
  OBVIOUS
<1>2. P(CHOOSE x : P(x))
  BY <1>1, Zenon
<1>3. Min({a, b}) = CHOOSE x : P(x)
  BY DEF Min
<1> QED
  BY <1>2, <1>3

\* The heap starts no larger than it may grow.
LEMMA HeapFitsHolds == HeapFits
<1> SUFFICES ASSUME NEW ram \in Amounts, ram = 0 \/ ram >= 256
             PROVE  xms_mb(ram) <= xmx_mb(ram)
  BY DEF HeapFits
<1> DEFINE x == xmx_mb(ram)
<1>1. ram \in Nat
  BY InputAssumption
<1>2. x \in Nat /\ x >= 256 /\ x \div 2 \in Nat /\ x \div 2 <= x
  BY <1>1 DEF xmx_mb
<1> HIDE DEF x
<1>3. PICK m : m = Min({x \div 2, 2048})
  OBVIOUS
<1>4. m \in Nat /\ m <= x
  BY <1>2, <1>3, LesserOf
<1>5. Max({m, 256}) = IF m >= 256 THEN m ELSE 256
  BY <1>4, GreaterOf
<1>6. xms_mb(ram) = Max({m, 256})
  BY <1>3 DEF xms_mb, x
<1> QED
  BY <1>2, <1>4, <1>5, <1>6 DEF x

\* A Forge profile brings no more arguments than there is room for.
LEMMA ExtraFits ==
  ASSUME NEW j \in Jsons, NEW kind \in {"jvm", "game"}, NEW max \in Nat
  PROVE  /\ forge_extract_extra_args(j, kind, max) \in Nat
         /\ forge_extract_extra_args(j, kind, max) <= max
<1>1. j \in [modern : BOOLEAN, tweak : BOOLEAN, jvm : Seq(STRING), game : Seq(STRING)]
  BY InputAssumption
<1>2. j[kind] \in Seq(STRING)
  <2>1. CASE kind = "jvm"
    BY <1>1, <2>1
  <2>2. CASE kind = "game"
    BY <1>1, <2>2
  <2> QED
    BY <2>1, <2>2
<1> DEFINE plain == {i \in DOMAIN j[kind] : j[kind][i] = "plain"}
           c == Cardinality(plain)
<1>3. c \in Nat
  <2>1. PICK n \in Nat : DOMAIN j[kind] = 1..n
    BY <1>2
  <2>2. 1 \in Int /\ n \in Int
    BY <2>1
  <2>3. IsFiniteSet(1..n)
    BY <2>2, FS_Interval
  <2>4. plain \subseteq 1..n
    BY <2>1
  <2>5. IsFiniteSet(plain)
    <3> HIDE DEF plain
    <3> QED
      BY <2>3, <2>4, FS_Subset
  <2> QED
    BY <2>5, FS_CardinalityType
<1>4. CASE j.modern
  <2>1. forge_extract_extra_args(j, kind, max) = Min({max, c})
    BY <1>4 DEF forge_extract_extra_args
  <2> HIDE DEF c
  <2>2. Min({max, c}) = IF max <= c THEN max ELSE c
    BY <1>3, LesserOf
  <2> QED
    BY <1>3, <2>1, <2>2
<1>5. CASE ~j.modern
  BY <1>5 DEF forge_extract_extra_args
<1> QED
  BY <1>4, <1>5

\* The arguments fit, whatever the profile.
LEMMA ArgumentsFitHolds ==
  ASSUME NEW loader
  PROVE  ArgumentsFit(loader)
<1> SUFFICES ASSUME NEW j \in Jsons, NEW cero \in BOOLEAN, NEW mac \in BOOLEAN
             PROVE  argc(build_launch_argv(cero, mac, ExtraArgs(loader, j))) <= 192
  BY DEF ArgumentsFit
<1>1. PICK a, b : ExtraArgs(loader, j) = [jvm |-> a, game |-> b]
                  /\ a \in 0..16 /\ b \in 0..32
  <2>1. CASE loader = "forge"
    <3>1. /\ ExtraArgs(loader, j) = [jvm |-> forge_extract_extra_args(j, "jvm", 16),
                                     game |-> forge_extract_extra_args(j, "game", 32)]
      BY <2>1 DEF ExtraArgs
    <3>2. /\ forge_extract_extra_args(j, "jvm", 16) \in 0..16
          /\ forge_extract_extra_args(j, "game", 32) \in 0..32
      <4>1. "jvm" \in {"jvm", "game"} /\ "game" \in {"jvm", "game"} /\ 16 \in Nat /\ 32 \in Nat
        OBVIOUS
      <4>2. /\ forge_extract_extra_args(j, "jvm", 16) \in Nat
            /\ forge_extract_extra_args(j, "jvm", 16) <= 16
        BY <4>1, ExtraFits
      <4>3. /\ forge_extract_extra_args(j, "game", 32) \in Nat
            /\ forge_extract_extra_args(j, "game", 32) <= 32
        BY <4>1, ExtraFits
      <4> QED
        BY <4>2, <4>3
    <3> QED
      BY <3>1, <3>2
  <2>2. CASE loader # "forge"
    <3>1. ExtraArgs(loader, j) = [jvm |-> 0, game |-> 0]
      BY <2>2 DEF ExtraArgs
    <3>2. 0 \in 0..16 /\ 0 \in 0..32
      OBVIOUS
    <3> QED
      BY <3>1, <3>2
  <2> QED
    BY <2>1, <2>2
<1> DEFINE l == <<1, 1, 1, 18, 8, IF mac THEN 1 ELSE 0, a, 2, 1, IF cero THEN 2 ELSE 0,
                  22, b, 1>>
           argv == build_launch_argv(cero, mac, ExtraArgs(loader, j))
<1>2. [i \in DOMAIN argv |-> argv[i][2]] = l
  <2>1. DOMAIN argv = 1..13 /\ DOMAIN l = 1..13
    BY DEF build_launch_argv
  <2>2. /\ argv[1][2] = l[1] /\ argv[2][2] = l[2] /\ argv[3][2] = l[3] /\ argv[4][2] = l[4]
        /\ argv[5][2] = l[5] /\ argv[6][2] = l[6] /\ argv[7][2] = l[7] /\ argv[8][2] = l[8]
        /\ argv[9][2] = l[9] /\ argv[10][2] = l[10] /\ argv[11][2] = l[11]
        /\ argv[12][2] = l[12] /\ argv[13][2] = l[13]
    BY <1>1 DEF build_launch_argv
  <2>3. \A i \in 1..13 : i \in {1, 2, 3, 4, 5, 6, 7, 8, 9, 10, 11, 12, 13}
    OBVIOUS
  <2>4. l = [i \in 1..13 |-> l[i]]
    OBVIOUS
  <2> HIDE DEF argv, l
  <2>5. \A i \in 1..13 : argv[i][2] = l[i]
    BY <2>2, <2>3
  <2> QED
    BY <2>1, <2>4, <2>5
<1>3. argc(argv) = Total(l)
  BY <1>2 DEF argc
<1>4. l \in Seq(Nat) /\ Len(l) = 13
  BY <1>1
<1>5. PICK at \in [0..13 -> Nat] :
          at[0] = 0 /\ Total(l) = at[13] /\ \A i \in 1..13 : at[i] = at[i - 1] + l[i]
  <2> HIDE DEF l
  <2> QED
    BY <1>4, TotalIs
<1>6. /\ l[1] = 1 /\ l[2] = 1 /\ l[3] = 1 /\ l[4] = 18 /\ l[5] = 8 /\ l[6] <= 1
      /\ l[7] <= 16 /\ l[8] = 2 /\ l[9] = 1 /\ l[10] <= 2 /\ l[11] = 22 /\ l[12] <= 32
      /\ l[13] = 1 /\ \A i \in 1..13 : l[i] \in Nat
  BY <1>1
<1> HIDE DEF l, argv
<1>7. /\ at[1] = at[0] + l[1] /\ at[2] = at[1] + l[2] /\ at[3] = at[2] + l[3]
      /\ at[4] = at[3] + l[4] /\ at[5] = at[4] + l[5] /\ at[6] = at[5] + l[6]
      /\ at[7] = at[6] + l[7] /\ at[8] = at[7] + l[8] /\ at[9] = at[8] + l[9]
      /\ at[10] = at[9] + l[10] /\ at[11] = at[10] + l[11] /\ at[12] = at[11] + l[12]
      /\ at[13] = at[12] + l[13]
  BY <1>5
<1>8. \A i \in 0..13 : at[i] \in Nat
  BY <1>5
<1>9. at[13] <= 192
  BY <1>5, <1>6, <1>7, <1>8
<1> QED
  BY <1>3, <1>5, <1>9 DEF argv

-----------------------------------------------------------------------------
(* The libraries of the class path.                                        *)

\* A set of positions that is not empty has a first one.
LEMMA FirstIn ==
  ASSUME NEW s \in SUBSET Nat, s # {}
  PROVE  Min(s) \in s /\ \A k \in s : Min(s) <= k
<1> DEFINE P(x) == x \in s /\ \A y \in s : x <= y
<1>1. \E x : P(x)
  BY LeastOf
<1>2. P(CHOOSE x : P(x))
  BY <1>1, Zenon
<1>3. Min(s) = CHOOSE x : P(x)
  BY DEF Min
<1> QED
  BY <1>2, <1>3

\* A list with one more element at its end.
LEMMA AppendIs ==
  ASSUME NEW S, NEW s \in Seq(S), NEW x \in S
  PROVE  /\ Append(s, x) \in Seq(S) /\ Len(s) \in Nat
         /\ Len(Append(s, x)) = Len(s) + 1
         /\ DOMAIN s = 1..Len(s) /\ DOMAIN Append(s, x) = 1..(Len(s) + 1)
         /\ \A i \in 1..Len(s) : Append(s, x)[i] = s[i]
         /\ Append(s, x)[Len(s) + 1] = x
  BY AppendProperties, LenProperties

\* What cp_add does: it leaves the list as it is or puts the library at its
\* end, the latter only beside one of its version, and always when all there
\* are of it have its version and there is room.
LEMMA CpAddIs ==
  ASSUME NEW D, NEW arr \in Seq(D), NEW lib \in D
  PROVE  /\ \/ cp_add(arr, lib) = arr
            \/ /\ cp_add(arr, lib) = Append(arr, lib) /\ Len(arr) < LibCap
               /\ \/ \A i \in DOMAIN arr : arr[i].ga # lib.ga
                  \/ \E i \in DOMAIN arr : arr[i].ga = lib.ga /\ arr[i].ver = lib.ver
         /\ /\ Len(arr) < LibCap
            /\ \A i \in DOMAIN arr : arr[i].ga = lib.ga => arr[i].ver = lib.ver
            => cp_add(arr, lib) = Append(arr, lib)
<1> DEFINE same == {i \in DOMAIN arr : arr[i].ga = lib.ga}
<1>1. LibCap \in Nat /\ Len(arr) \in Nat /\ DOMAIN arr = 1..Len(arr)
  BY RoomAssumption, LenProperties
<1>2. same \in SUBSET Nat
  BY <1>1
<1>3. same # {} => Min(same) \in same
  <2> HIDE DEF same
  <2> QED
    BY <1>2, FirstIn
<1> DEFINE m == Min(same)
<1>4. cp_add(arr, lib) = IF \/ same # {} /\ arr[m].ver # lib.ver
                            \/ Len(arr) >= LibCap
                         THEN arr ELSE Append(arr, lib)
  BY DEF cp_add
<1>5. /\ same # {} => m \in DOMAIN arr /\ arr[m].ga = lib.ga
      /\ same = {} => \A i \in DOMAIN arr : arr[i].ga # lib.ga
  BY <1>3
<1> HIDE DEF m, same
<1>6. CASE same # {} /\ arr[m].ver # lib.ver
  BY <1>4, <1>5, <1>6
<1>7. CASE Len(arr) >= LibCap
  <2>1. cp_add(arr, lib) = arr
    BY <1>4, <1>7
  <2>2. ~(Len(arr) < LibCap)
    BY <1>1, <1>7
  <2> QED
    BY <2>1, <2>2
<1>8. CASE ~(same # {} /\ arr[m].ver # lib.ver) /\ ~(Len(arr) >= LibCap)
  <2>1. cp_add(arr, lib) = Append(arr, lib)
    BY <1>4, <1>8
  <2>2. Len(arr) < LibCap
    BY <1>1, <1>8
  <2>3. \/ \A i \in DOMAIN arr : arr[i].ga # lib.ga
        \/ \E i \in DOMAIN arr : arr[i].ga = lib.ga /\ arr[i].ver = lib.ver
    BY <1>5, <1>8
  <2> QED
    BY <2>1, <2>2, <2>3
<1> QED
  BY <1>6, <1>7, <1>8

\* What an entry makes of the list.
Added(as, a, e) == IF e \in DOMAIN as THEN cp_add(a, as[e]) ELSE a

\* The list of libraries, one entry after the other.
Fills(at, D, arr, entries, as) ==
    /\ at \in [0..Len(entries) -> Seq(D)] /\ at[0] = arr
    /\ \A i \in 1..Len(entries) : at[i] = Added(as, at[i - 1], entries[i])

\* What is collected is what comes of it one entry after the other.
LEMMA CollectedIs ==
  ASSUME NEW D, NEW arr \in Seq(D), NEW E, NEW entries \in Seq(E), NEW as,
         \A e \in DOMAIN as : as[e] \in D
  PROVE  \E at : /\ Fills(at, D, arr, entries, as)
                 /\ Collected(arr, entries, as) = at[Len(entries)]
<1> DEFINE n == Len(entries)
           S == Seq(D)
           step == [p \in S \X (1..n) |-> Added(as, p[1], entries[p[2]])]
           Folds(it) == it = [s \in SUBSET (1..n) |->
                              IF s = {} THEN arr ELSE Added(as, it[s \ {Max(s)}], entries[Max(s)])]
           g == CHOOSE it : Folds(it)
<1>1. n \in Nat /\ DOMAIN entries = 1..n
  BY LenProperties
<1>2. step \in [S \X (1..n) -> S]
  <2>1. ASSUME NEW a \in Seq(D), NEW e PROVE Added(as, a, e) \in Seq(D)
    <3>1. CASE e \in DOMAIN as
      <4>1. as[e] \in D
        BY <3>1
      <4>2. PICK x \in D : x = as[e]
        BY <4>1
      <4>3. cp_add(a, x) = a \/ cp_add(a, x) = Append(a, x)
        BY CpAddIs
      <4>4. Append(a, x) \in Seq(D)
        BY AppendProperties
      <4>5. cp_add(a, x) \in Seq(D)
        BY <4>3, <4>4
      <4> QED
        BY <3>1, <4>2, <4>5 DEF Added
    <3>2. CASE e \notin DOMAIN as
      BY <3>2 DEF Added
    <3> QED
      BY <3>1, <3>2
  <2> QED
    BY <2>1
<1>3. \A x \in S, i \in 1..n : step[<<x, i>>] = Added(as, x, entries[i])
  OBVIOUS
<1>8. Collected(arr, entries, as) = g[1..n]
  BY <1>1 DEF Collected, FoldLeft, MapThenFoldSet, Added
<1>4. arr \in S
  OBVIOUS
<1> HIDE DEF step, n, S
<1>5. PICK it : Goes(it, S, arr, n, step)
  BY <1>1, <1>2, <1>4, FoldExists, Zenon
<1>6. \A s \in SUBSET (1..n) : s # {} => Max(s) \in 1..n /\ it[s \ {Max(s)}] \in S
  BY <1>1, <1>5, GoesThrough, Zenon
<1>7. Folds(it)
  BY <1>3, <1>5, <1>6 DEF Goes
<1>9. Folds(g)
  <2> HIDE DEF Folds
  <2> QED
    BY <1>7, Zenon
<1> HIDE DEF g
<1>10. ASSUME NEW i \in 1..n
       PROVE  g[1..(i - 1)] \in S => g[1..i] = step[<<g[1..(i - 1)], i>>]
  <2>1. /\ 1..i \in SUBSET (1..n) /\ 1..i # {}
        /\ Max(1..i) = i /\ (1..i) \ {Max(1..i)} = 1..(i - 1)
    BY <1>1, Segment
  <2>2. g[1..i] = Added(as, g[1..(i - 1)], entries[i])
    BY <1>9, <2>1
  <2> QED
    BY <1>3, <2>2
<1>11. Rises(g, S, arr, n, step)
  <2>1. g[{}] = arr
    BY <1>9
  <2> QED
    BY <1>2, <1>4, <1>10, <2>1 DEF Rises
<1>12. PICK at : Along(at, S, arr, n, step) /\ g[1..n] = at[n]
  BY <1>1, <1>11, Rungs
<1>13. /\ at \in [0..n -> S] /\ at[0] = arr
       /\ \A i \in 1..n : at[i - 1] \in S /\ at[i] = step[<<at[i - 1], i>>]
  <2>1. \A i \in 1..n : i - 1 \in 0..n
    BY <1>1
  <2> QED
    BY <1>12, <2>1 DEF Along
<1>14. \A i \in 1..n : at[i] = Added(as, at[i - 1], entries[i])
  BY <1>3, <1>13
<1> QED
  BY <1>8, <1>12, <1>13, <1>14 DEF Fills, n, S

\* The entry whose version counts: the first of its group and artifact.
Firsts(all, named, f) == f \in named /\ \A k \in named : all[k].ga = all[f].ga => f <= k

\* The jars an entry may bring.
Jars(e) == {gav_to_relpath(e), VanillaLib(e).jar}

\* What is known of the libraries when the first k entries have been through:
\* all have the version that came first, and while there is room every entry of
\* that version has its jar in the list.
Settled(arr, all, named, k) ==
    /\ \A m \in DOMAIN arr, f \in named :
           Firsts(all, named, f) /\ all[f].ga = arr[m].ga => f <= k /\ arr[m].ver = all[f].ver
    /\ Len(arr) < LibCap =>
           \A i, f \in named :
               /\ i <= k /\ Firsts(all, named, f)
               /\ all[f].ga = all[i].ga /\ all[f].ver = all[i].ver
               => \E m \in DOMAIN arr : arr[m].ga = all[i].ga /\ arr[m].jar \in Jars(all[i])

\* An entry that does not count changes nothing of it.
LEMMA PassedOver ==
  ASSUME NEW arr, NEW all, NEW named \in SUBSET Nat, NEW k \in Nat \ {0},
         Settled(arr, all, named, k - 1), k \notin named
  PROVE  Settled(arr, all, named, k)
<1>1. \A i \in named : /\ i <= k - 1 => i <= k
                       /\ i <= k => i <= k - 1
  OBVIOUS
<1>2. ASSUME NEW m \in DOMAIN arr, NEW f \in named, Firsts(all, named, f), all[f].ga = arr[m].ga
      PROVE  f <= k /\ arr[m].ver = all[f].ver
  BY <1>1, <1>2 DEF Settled
<1>3. ASSUME Len(arr) < LibCap, NEW i \in named, NEW f \in named, i <= k, Firsts(all, named, f),
             all[f].ga = all[i].ga, all[f].ver = all[i].ver
      PROVE  \E m \in DOMAIN arr : arr[m].ga = all[i].ga /\ arr[m].jar \in Jars(all[i])
  BY <1>1, <1>3 DEF Settled
<1> QED
  BY <1>2, <1>3 DEF Settled

\* One that counts is added as cp_add does it.
LEMMA TakenUp ==
  ASSUME NEW D, NEW arr \in Seq(D), NEW all, NEW named \in SUBSET Nat, NEW k \in Nat \ {0},
         Settled(arr, all, named, k - 1), k \in named,
         NEW lib \in D, lib.ga = all[k].ga, lib.ver = all[k].ver, lib.jar \in Jars(all[k])
  PROVE  Settled(cp_add(arr, lib), all, named, k)
<1> DEFINE new == cp_add(arr, lib)
           n == Len(arr)
<1>1. \A i \in named : /\ i <= k - 1 => i <= k
                       /\ i <= k => i <= k - 1 \/ i = k
  OBVIOUS
<1>2. n \in Nat /\ LibCap \in Nat /\ DOMAIN arr = 1..n
  BY RoomAssumption, LenProperties
<1>3. /\ Len(Append(arr, lib)) = n + 1 /\ DOMAIN Append(arr, lib) = 1..(n + 1)
      /\ \A i \in 1..n : Append(arr, lib)[i] = arr[i]
      /\ Append(arr, lib)[n + 1] = lib
  BY AppendIs
<1>4. /\ \/ new = arr
         \/ /\ new = Append(arr, lib) /\ n < LibCap
            /\ \/ \A i \in DOMAIN arr : arr[i].ga # lib.ga
               \/ \E i \in DOMAIN arr : arr[i].ga = lib.ga /\ arr[i].ver = lib.ver
      /\ /\ n < LibCap
         /\ \A i \in DOMAIN arr : arr[i].ga = lib.ga => arr[i].ver = lib.ver
         => new = Append(arr, lib)
  BY CpAddIs
<1>5. Append(arr, lib) # arr
  <2>1. \A x \in Nat : x + 1 # x
    OBVIOUS
  <2>2. n + 1 # n
    <3> HIDE DEF n
    <3> QED
      BY <1>2, <2>1
  <2> QED
    BY <1>3, <2>2
<1> HIDE DEF new, n
<1>6. \A m \in DOMAIN arr, f \in named :
          Firsts(all, named, f) /\ all[f].ga = arr[m].ga => f <= k - 1 /\ arr[m].ver = all[f].ver
  BY DEF Settled
<1>7. n < LibCap =>
          \A i, f \in named :
              /\ i <= k - 1 /\ Firsts(all, named, f)
              /\ all[f].ga = all[i].ga /\ all[f].ver = all[i].ver
              => \E m \in DOMAIN arr : arr[m].ga = all[i].ga /\ arr[m].jar \in Jars(all[i])
  BY DEF Settled, n
<1>8. \A f \in named : Firsts(all, named, f) /\ all[f].ga = all[k].ga => f <= k
  BY DEF Firsts
<1>9. CASE new = arr
  <2>1. ~(n < LibCap /\ \A i \in DOMAIN arr : arr[i].ga = lib.ga => arr[i].ver = lib.ver)
    BY <1>4, <1>5, <1>9
  <2>2. ASSUME NEW m \in DOMAIN arr, NEW f \in named, Firsts(all, named, f), all[f].ga = arr[m].ga
        PROVE  f <= k /\ arr[m].ver = all[f].ver
    BY <1>1, <1>6, <2>2
  <2>3. ASSUME n < LibCap, NEW i \in named, NEW f \in named, i <= k, Firsts(all, named, f),
               all[f].ga = all[i].ga, all[f].ver = all[i].ver
        PROVE  \E m \in DOMAIN arr : arr[m].ga = all[i].ga /\ arr[m].jar \in Jars(all[i])
    <3>1. CASE i <= k - 1
      BY <1>7, <2>3, <3>1
    <3>2. CASE i = k
      <4>1. \A j \in DOMAIN arr : arr[j].ga = lib.ga => arr[j].ver = lib.ver
        BY <1>6, <2>3, <3>2
      <4> QED
        BY <2>1, <2>3, <4>1
    <3> QED
      BY <1>1, <2>3, <3>1, <3>2
  <2>4. Settled(arr, all, named, k)
    BY <2>2, <2>3 DEF Settled, n
  <2> QED
    BY <1>9, <2>4 DEF new
<1>10. CASE /\ new = Append(arr, lib) /\ n < LibCap
            /\ \/ \A i \in DOMAIN arr : arr[i].ga # lib.ga
               \/ \E i \in DOMAIN arr : arr[i].ga = lib.ga /\ arr[i].ver = lib.ver
  <2>1. /\ DOMAIN new = 1..(n + 1) /\ Len(new) = n + 1
        /\ \A m \in 1..n : new[m] = arr[m]
        /\ new[n + 1] = lib
    BY <1>3, <1>10
  <2>2. \A m \in DOMAIN new : m \in 1..n \/ m = n + 1
    BY <1>2, <2>1
  <2>3. 1..n \subseteq DOMAIN new /\ n + 1 \in DOMAIN new
    BY <1>2, <2>1
  <2>4. ASSUME NEW f \in named, Firsts(all, named, f), all[f].ga = lib.ga
        PROVE  f <= k /\ lib.ver = all[f].ver
    <3>1. f <= k
      BY <1>8, <2>4
    <3>2. CASE \E i \in DOMAIN arr : arr[i].ga = lib.ga /\ arr[i].ver = lib.ver
      BY <1>6, <2>4, <3>1, <3>2
    <3>3. CASE \A i \in DOMAIN arr : arr[i].ga # lib.ga
      <4>1. ~(f <= k - 1)
        BY <1>7, <1>10, <2>4, <3>3
      <4>2. f = k
        BY <1>1, <3>1, <4>1
      <4> QED
        BY <3>1, <4>2
    <3> QED
      BY <1>10, <3>2, <3>3
  <2>5. ASSUME NEW m \in DOMAIN new, NEW f \in named, Firsts(all, named, f), all[f].ga = new[m].ga
        PROVE  f <= k /\ new[m].ver = all[f].ver
    <3>1. CASE m \in 1..n
      BY <1>1, <1>2, <1>6, <2>1, <2>5, <3>1
    <3>2. CASE m = n + 1
      BY <2>1, <2>4, <2>5, <3>2
    <3> QED
      BY <2>2, <3>1, <3>2
  <2>6. ASSUME NEW i \in named, NEW f \in named, i <= k, Firsts(all, named, f),
               all[f].ga = all[i].ga, all[f].ver = all[i].ver
        PROVE  \E m \in DOMAIN new : new[m].ga = all[i].ga /\ new[m].jar \in Jars(all[i])
    <3>1. CASE i <= k - 1
      <4>1. PICK m \in DOMAIN arr : arr[m].ga = all[i].ga /\ arr[m].jar \in Jars(all[i])
        BY <1>7, <1>10, <2>6, <3>1
      <4>2. m \in DOMAIN new /\ new[m] = arr[m]
        BY <1>2, <2>1, <2>3
      <4> QED
        BY <4>1, <4>2
    <3>2. CASE i = k
      BY <2>1, <2>3, <3>2
    <3> QED
      BY <1>1, <2>6, <3>1, <3>2
  <2>7. Settled(new, all, named, k)
    BY <2>5, <2>6 DEF Settled
  <2> QED
    BY <2>7 DEF new
<1> QED
  BY <1>4, <1>9, <1>10

\* The libraries there are.
Lib == {ProfileLib(e) : e \in Entry} \cup {VanillaLib(e) : e \in Entry}

\* The entries of a part of all, which comes after the first off, and what those
\* of them that count are added as.
Follows(off, entries, as, all, named) ==
    /\ \A i \in 1..Len(entries) : /\ all[off + i] = entries[i]
                                  /\ off + i \in named <=> entries[i] \in DOMAIN as
    /\ \A e \in DOMAIN as : /\ as[e] \in Lib
                            /\ as[e].ga = e.ga /\ as[e].ver = e.ver /\ as[e].jar \in Jars(e)

\* So all of a part can be walked through.
LEMMA Walk ==
  ASSUME NEW arr \in Seq(Lib), NEW entries \in Seq(Entry), NEW as,
         NEW off \in Nat, NEW all, NEW named \in SUBSET Nat,
         Follows(off, entries, as, all, named), Settled(arr, all, named, off)
  PROVE  /\ Collected(arr, entries, as) \in Seq(Lib)
         /\ Settled(Collected(arr, entries, as), all, named, off + Len(entries))
<1>1. \A e \in DOMAIN as : as[e] \in Lib
  BY DEF Follows
<1>2. PICK at : /\ Fills(at, Lib, arr, entries, as)
                /\ Collected(arr, entries, as) = at[Len(entries)]
  BY <1>1, CollectedIs
<1> DEFINE n == Len(entries)
           T == {i \in 0..n : Settled(at[i], all, named, off + i)}
<1>3. n \in Nat
  BY LenProperties
<1>4. /\ at \in [0..n -> Seq(Lib)] /\ at[0] = arr
      /\ \A i \in 1..n : at[i] = Added(as, at[i - 1], entries[i])
  BY <1>2 DEF Fills
<1> HIDE DEF n
<1>5. 0 \in T
  <2>1. off + 0 = off /\ 0 \in 0..n
    BY <1>3
  <2> QED
    BY <1>4, <2>1
<1>6. ASSUME NEW i \in 1..n, i - 1 \in T PROVE i \in T
  <2>1. /\ i - 1 \in 0..n /\ i \in 0..n /\ off + i \in Nat \ {0}
        /\ off + (i - 1) = (off + i) - 1
    BY <1>3
  <2>2. PICK k \in Nat \ {0} : k = off + i
    BY <2>1
  <2>3. PICK a \in Seq(Lib) : a = at[i - 1]
    BY <1>4, <2>1
  <2>4. Settled(a, all, named, k - 1)
    BY <1>6, <2>1, <2>2, <2>3
  <2>5. all[k] = entries[i] /\ (k \in named <=> entries[i] \in DOMAIN as)
    BY <2>2 DEF Follows, n
  <2>6. at[i] = Added(as, a, entries[i])
    BY <1>4, <2>3
  <2>7. CASE entries[i] \in DOMAIN as
    <3>1. PICK lib \in Lib : lib = as[entries[i]]
      BY <1>1, <2>7
    <3>2. lib.ga = all[k].ga /\ lib.ver = all[k].ver /\ lib.jar \in Jars(all[k])
      BY <2>5, <2>7, <3>1 DEF Follows
    <3>3. k \in named
      BY <2>5, <2>7
    <3>4. Settled(cp_add(a, lib), all, named, k)
      BY <2>4, <3>2, <3>3, TakenUp
    <3>5. at[i] = cp_add(a, lib)
      BY <2>6, <2>7, <3>1 DEF Added
    <3> QED
      BY <2>1, <2>2, <3>4, <3>5
  <2>8. CASE entries[i] \notin DOMAIN as
    <3>1. k \notin named
      BY <2>5, <2>8
    <3>2. Settled(a, all, named, k)
      BY <2>4, <3>1, PassedOver
    <3>3. at[i] = a
      BY <2>6, <2>8 DEF Added
    <3> QED
      BY <2>1, <2>2, <3>2, <3>3
  <2> QED
    BY <2>7, <2>8
<1> HIDE DEF T
<1>7. 0..n \subseteq T
  BY <1>3, <1>5, <1>6, Climb
<1>8. n \in T /\ n \in 0..n
  BY <1>3, <1>7
<1>9. Settled(at[n], all, named, off + n)
  BY <1>8 DEF T
<1> QED
  BY <1>2, <1>4, <1>8, <1>9 DEF n

\* An entry is added under its own name and in its own version.
LEMMA LibIs ==
  ASSUME NEW e \in Entry
  PROVE  /\ ProfileLib(e) \in Lib /\ ProfileLib(e).ga = e.ga /\ ProfileLib(e).ver = e.ver
         /\ ProfileLib(e).jar \in Jars(e)
         /\ VanillaLib(e) \in Lib /\ VanillaLib(e).ga = e.ga /\ VanillaLib(e).ver = e.ver
         /\ VanillaLib(e).jar \in Jars(e)
<1>1. ProfileLib(e) \in Lib /\ VanillaLib(e) \in Lib
  BY DEF Lib
<1>2. ProfileLib(e).jar \in Jars(e) /\ VanillaLib(e).jar \in Jars(e)
  BY DEF ProfileLib, CpLib, Jars
<1>3. ProfileLib(e).ga = e.ga /\ ProfileLib(e).ver = e.ver
  BY DEF ProfileLib, CpLib
<1>4. VanillaLib(e).ga = e.ga /\ VanillaLib(e).ver = e.ver
  BY DEF VanillaLib, CpLib
<1> QED
  BY <1>1, <1>2, <1>3, <1>4

\* The entries that count of the loader's profile.
OfProfile(loader, p) ==
    CASE loader = "fabric" -> {x \in Range(p) : parse_maven_gav(x)}
      [] loader = "forge" -> {x \in Range(p) : x.clientreq /\ parse_maven_gav(x)}
      [] OTHER -> {}

\* The same of the version file.
OfVersion(v) == {x \in Range(v) : rules_allow_current_os(x.rules) /\ parse_maven_gav(x)}

\* Both lists joined.
LEMMA BothLists ==
  ASSUME NEW p \in Seq(Entry), NEW v \in Seq(Entry)
  PROVE  /\ Len(p) \in Nat /\ Len(v) \in Nat
         /\ DOMAIN (p \o v) = 1..(Len(p) + Len(v))
         /\ \A i \in 1..Len(p) : (p \o v)[i] = p[i] /\ p[i] \in Entry /\ p[i] \in Range(p)
         /\ \A i \in 1..Len(v) : /\ (p \o v)[Len(p) + i] = v[i]
                                 /\ v[i] \in Entry /\ v[i] \in Range(v)
<1>1. Len(p) \in Nat /\ Len(v) \in Nat /\ DOMAIN p = 1..Len(p) /\ DOMAIN v = 1..Len(v)
  BY LenProperties
<1>2. /\ Len(p \o v) = Len(p) + Len(v) /\ p \o v \in Seq(Entry)
      /\ \A i \in 1..(Len(p) + Len(v)) :
             (p \o v)[i] = IF i <= Len(p) THEN p[i] ELSE v[i - Len(p)]
  BY ConcatProperties
<1>3. DOMAIN (p \o v) = 1..(Len(p) + Len(v))
  BY <1>2, LenProperties
<1>4. ASSUME NEW i \in 1..Len(p)
      PROVE  (p \o v)[i] = p[i] /\ p[i] \in Entry /\ p[i] \in Range(p)
  <2>1. i \in 1..(Len(p) + Len(v)) /\ i <= Len(p)
    BY <1>1
  <2>2. p[i] \in Entry
    BY ElementOfSeq
  <2> QED
    BY <1>1, <1>2, <2>1, <2>2 DEF Range
<1>5. ASSUME NEW i \in 1..Len(v)
      PROVE  (p \o v)[Len(p) + i] = v[i] /\ v[i] \in Entry /\ v[i] \in Range(v)
  <2>1. /\ Len(p) + i \in 1..(Len(p) + Len(v)) /\ ~(Len(p) + i <= Len(p))
        /\ (Len(p) + i) - Len(p) = i
    BY <1>1
  <2>2. v[i] \in Entry
    BY ElementOfSeq
  <2> QED
    BY <1>1, <1>2, <2>1, <2>2 DEF Range
<1> QED
  BY <1>1, <1>3, <1>4, <1>5

\* What counts of the two lists, by position and by entry.
LEMMA Counts ==
  ASSUME NEW p \in Seq(Entry), NEW v \in Seq(Entry), NEW loader \in {"vanilla", "fabric", "forge"}
  PROVE  /\ \A i \in 1..Len(p) : i \in Candidates(loader, p, v) <=> p[i] \in OfProfile(loader, p)
         /\ \A i \in 1..Len(v) : Len(p) + i \in Candidates(loader, p, v) <=> v[i] \in OfVersion(v)
<1> DEFINE all == p \o v
           named == Candidates(loader, p, v)
<1>1. /\ Len(p) \in Nat /\ Len(v) \in Nat /\ DOMAIN all = 1..(Len(p) + Len(v))
      /\ \A i \in 1..Len(p) : all[i] = p[i] /\ p[i] \in Entry /\ p[i] \in Range(p)
      /\ \A i \in 1..Len(v) : all[Len(p) + i] = v[i] /\ v[i] \in Entry /\ v[i] \in Range(v)
  BY BothLists
<1>2. \A i : i \in named <=>
          /\ i \in DOMAIN all /\ all[i].ga # ""
          /\ IF i > Len(p) THEN rules_allow_current_os(all[i].rules)
             ELSE loader = "fabric" \/ (loader = "forge" /\ all[i].clientreq)
  BY DEF Candidates
<1> HIDE DEF all, named
<1>3. ASSUME NEW i \in 1..Len(p) PROVE i \in named <=> p[i] \in OfProfile(loader, p)
  <2>1. i \in DOMAIN all /\ ~(i > Len(p))
    BY <1>1
  <2>2. i \in named <=> p[i].ga # "" /\ (loader = "fabric" \/ (loader = "forge" /\ p[i].clientreq))
    BY <1>1, <1>2, <2>1
  <2>3. p[i] \in Range(p)
    BY <1>1
  <2> QED
    BY <2>2, <2>3 DEF OfProfile, parse_maven_gav
<1>4. ASSUME NEW i \in 1..Len(v) PROVE Len(p) + i \in named <=> v[i] \in OfVersion(v)
  <2>1. Len(p) + i \in DOMAIN all /\ Len(p) + i > Len(p)
    BY <1>1
  <2>2. Len(p) + i \in named <=> v[i].ga # "" /\ rules_allow_current_os(v[i].rules)
    BY <1>1, <1>2, <2>1
  <2>3. v[i] \in Range(v)
    BY <1>1
  <2> QED
    BY <2>2, <2>3 DEF OfVersion, parse_maven_gav
<1> QED
  BY <1>3, <1>4 DEF named

\* The libraries of a launch, after all entries of both lists.
LEMMA LibsAre ==
  ASSUME NEW p \in Seq(Entry), NEW v \in Seq(Entry), NEW loader \in {"vanilla", "fabric", "forge"}
  PROVE  /\ libs_arr(loader, p, v) \in Seq(Lib)
         /\ Settled(libs_arr(loader, p, v), p \o v, Candidates(loader, p, v), Len(p) + Len(v))
<1> DEFINE all == p \o v
           named == Candidates(loader, p, v)
           asp == [e \in OfProfile(loader, p) |-> ProfileLib(e)]
           asv == [e \in OfVersion(v) |-> VanillaLib(e)]
           own == IF loader = "vanilla" THEN << >> ELSE Collected(<< >>, p, asp)
<1>1. libs_arr(loader, p, v) = Collected(own, v, asv)
  BY DEF libs_arr, collect_vanilla_libs, collect_fabric_libs, collect_forge_libs,
         OfProfile, OfVersion
<1>2. /\ Len(p) \in Nat /\ Len(v) \in Nat /\ DOMAIN all = 1..(Len(p) + Len(v))
      /\ \A i \in 1..Len(p) : all[i] = p[i] /\ p[i] \in Entry /\ p[i] \in Range(p)
      /\ \A i \in 1..Len(v) : all[Len(p) + i] = v[i] /\ v[i] \in Entry /\ v[i] \in Range(v)
  BY BothLists
<1>3. named \in SUBSET Nat /\ \A k \in named : k >= 1
  <2>1. named \subseteq DOMAIN all
    BY DEF Candidates
  <2>2. \A k \in DOMAIN all : k \in Nat /\ k >= 1
    <3> HIDE DEF all
    <3> QED
      BY <1>2
  <2> HIDE DEF named, all
  <2> QED
    BY <2>1, <2>2
<1>4. Range(p) \subseteq Entry /\ Range(v) \subseteq Entry
  <2>1. \A i \in DOMAIN p : p[i] \in Entry
    BY <1>2, LenProperties
  <2>2. \A i \in DOMAIN v : v[i] \in Entry
    BY <1>2, LenProperties
  <2> QED
    BY <2>1, <2>2 DEF Range
<1>5. /\ \A i \in 1..Len(p) : i \in named <=> p[i] \in OfProfile(loader, p)
      /\ \A i \in 1..Len(v) : Len(p) + i \in named <=> v[i] \in OfVersion(v)
  BY Counts
<1>6. OfProfile(loader, p) \subseteq Entry /\ OfVersion(v) \subseteq Entry
  BY <1>4 DEF OfProfile, OfVersion
<1>7. Follows(0, p, asp, all, named)
  <2>1. \A e \in DOMAIN asp : /\ asp[e] \in Lib
                              /\ asp[e].ga = e.ga /\ asp[e].ver = e.ver /\ asp[e].jar \in Jars(e)
    BY <1>6, LibIs
  <2>2. \A i \in 1..Len(p) : 0 + i = i
    OBVIOUS
  <2>3. DOMAIN asp = OfProfile(loader, p)
    OBVIOUS
  <2> HIDE DEF asp, all, named
  <2> QED
    BY <1>2, <1>5, <2>1, <2>2, <2>3 DEF Follows
<1>8. Follows(Len(p), v, asv, all, named)
  <2>1. \A e \in DOMAIN asv : /\ asv[e] \in Lib
                              /\ asv[e].ga = e.ga /\ asv[e].ver = e.ver /\ asv[e].jar \in Jars(e)
    BY <1>6, LibIs
  <2>2. DOMAIN asv = OfVersion(v)
    OBVIOUS
  <2> HIDE DEF asv, all, named
  <2> QED
    BY <1>2, <1>5, <2>1, <2>2 DEF Follows
<1>9. << >> \in Seq(Lib) /\ Settled(<< >>, all, named, 0)
  <2>1. << >> \in Seq(Lib) /\ DOMAIN << >> = {} /\ \A i \in named : ~(i <= 0)
    BY <1>3
  <2> HIDE DEF all, named
  <2> QED
    BY <2>1 DEF Settled
<1> HIDE DEF all, named, asp, asv
<1>10. own \in Seq(Lib) /\ Settled(own, all, named, Len(p))
  <2>1. CASE loader # "vanilla"
    <3>1. PICK none \in Seq(Lib) : none = << >>
      BY <1>9
    <3>2. /\ Collected(none, p, asp) \in Seq(Lib)
          /\ Settled(Collected(none, p, asp), all, named, 0 + Len(p))
      BY <1>3, <1>7, <1>9, <3>1, Walk
    <3>3. 0 + Len(p) = Len(p)
      BY <1>2
    <3> QED
      BY <2>1, <3>1, <3>2, <3>3
  <2>2. CASE loader = "vanilla"
    <3>1. \A i \in 1..Len(p) : i \notin named
      BY <1>5, <2>2 DEF OfProfile
    <3>2. \A i \in named : ~(i <= Len(p))
      BY <1>2, <1>3, <3>1
    <3>3. DOMAIN << >> = {}
      OBVIOUS
    <3>4. Settled(<< >>, all, named, Len(p))
      BY <3>2, <3>3 DEF Settled
    <3> QED
      BY <1>9, <2>2, <3>4
  <2> QED
    BY <2>1, <2>2
<1> HIDE DEF own
<1>11. PICK arr \in Seq(Lib) : arr = own
  BY <1>10
<1>12. /\ Collected(arr, v, asv) \in Seq(Lib)
       /\ Settled(Collected(arr, v, asv), all, named, Len(p) + Len(v))
  BY <1>2, <1>3, <1>8, <1>10, <1>11, Walk
<1> QED
  BY <1>1, <1>11, <1>12 DEF all, named

\* Of the libraries of one group and artifact the class path has the version that
\* came first, whatever the lists; and every entry of that version has its jar on
\* it while there is room.
THEOREM FirstOfHolds ==
  ASSUME NEW loader \in {"vanilla", "fabric", "forge"}
  PROVE  FirstOf(loader)
<1> SUFFICES ASSUME NEW p \in Profiles, NEW v \in VersionFiles,
                    NEW i \in Candidates(loader, p, v)
             PROVE  LET all == p \o v
                        named == Candidates(loader, p, v)
                        arr == libs_arr(loader, p, v)
                        first == all[Min({k \in named : all[k].ga = all[i].ga})]
                        here == {lib \in Range(arr) : lib.ga = all[i].ga} IN
                    /\ \A lib \in here : lib.ver = first.ver
                    /\ all[i].ver = first.ver /\ Len(arr) < LibCap =>
                           \E lib \in here :
                               lib.jar \in {gav_to_relpath(all[i]), VanillaLib(all[i]).jar}
  BY DEF FirstOf
<1> DEFINE all == p \o v
           named == Candidates(loader, p, v)
           arr == libs_arr(loader, p, v)
           alike == {k \in named : all[k].ga = all[i].ga}
           f == Min(alike)
<1>1. p \in Seq(Entry) /\ v \in Seq(Entry)
  BY InputAssumption
<1>2. arr \in Seq(Lib) /\ Settled(arr, all, named, Len(p) + Len(v))
  BY <1>1, LibsAre
<1>3. Len(p) \in Nat /\ Len(v) \in Nat /\ DOMAIN all = 1..(Len(p) + Len(v))
  BY <1>1, BothLists
<1>4. named \subseteq DOMAIN all
  BY DEF Candidates
<1>5. alike \in SUBSET Nat /\ i \in alike
  BY <1>3, <1>4
<1>6. f \in alike /\ \A k \in alike : f <= k
  <2> HIDE DEF alike
  <2> QED
    BY <1>5, FirstIn
<1>7. Range(arr) = {arr[m] : m \in DOMAIN arr}
  BY DEF Range
<1> HIDE DEF all, arr, f
<1>8. Firsts(all, named, f) /\ f \in named /\ all[f].ga = all[i].ga
  BY <1>6 DEF Firsts
<1>9. i \in named /\ i <= Len(p) + Len(v)
  BY <1>3, <1>4
<1> HIDE DEF named, alike
<1>10. ASSUME NEW lib \in Range(arr), lib.ga = all[i].ga PROVE lib.ver = all[f].ver
  <2>1. PICK m \in DOMAIN arr : lib = arr[m]
    BY <1>7
  <2> QED
    BY <1>2, <1>8, <1>10, <2>1 DEF Settled
<1>11. ASSUME all[i].ver = all[f].ver, Len(arr) < LibCap
       PROVE  \E lib \in Range(arr) : lib.ga = all[i].ga /\ lib.jar \in Jars(all[i])
  <2>1. \E m \in DOMAIN arr : arr[m].ga = all[i].ga /\ arr[m].jar \in Jars(all[i])
    BY <1>2, <1>8, <1>9, <1>11 DEF Settled
  <2> QED
    BY <1>7, <2>1
<1> QED
  BY <1>10, <1>11 DEF all, named, arr, alike, f, Jars

\* What is collected is of the kind of what was there and of what is added.
LEMMA InD ==
  ASSUME NEW D, NEW arr \in Seq(D), NEW E, NEW entries \in Seq(E), NEW as,
         \A e \in DOMAIN as : as[e] \in D
  PROVE  Collected(arr, entries, as) \in Seq(D)
<1>1. PICK at : /\ Fills(at, D, arr, entries, as)
                /\ Collected(arr, entries, as) = at[Len(entries)]
  BY CollectedIs
<1>2. Len(entries) \in 0..Len(entries)
  BY LenProperties
<1> QED
  BY <1>1, <1>2 DEF Fills

\* What is in the class path and is not for the launch to fetch has a path under
\* which the game's own download puts it.
OnDisk(v) == {lib \in Lib : lib.needs_download \/ lib.jar \in version_get_libraries(v)}

\* Where no rule names an architecture, both readings of the rules agree.
LEMMA ReadAlike ==
  ASSUME NEW v, OneReading(v), NEW e \in Range(v)
  PROVE  rules_allow_current_os(e.rules) = vm_rules_allow(e.rules)
<1>1. {r \in Range(e.rules) : r.os # "other" /\ r.arch # "other"}
      = {r \in Range(e.rules) : r.os # "other"}
  BY DEF OneReading
<1> QED
  BY <1>1 DEF rules_allow_current_os, vm_rules_allow

\* Every library on the class path is fetched: for the launch, or with the files
\* of the version, when the version file names no architecture.
THEOREM AllFetchedHolds ==
  ASSUME NEW loader \in {"vanilla", "fabric", "forge"}
  PROVE  AllFetched(loader)
<1> SUFFICES ASSUME NEW p \in Profiles, NEW v \in VersionFiles, OneReading(v),
                    NEW lib \in Range(libs_arr(loader, p, v))
             PROVE  lib.needs_download \/ lib.jar \in version_get_libraries(v)
  BY DEF AllFetched
<1> DEFINE D == OnDisk(v)
           asp == [e \in OfProfile(loader, p) |-> ProfileLib(e)]
           asv == [e \in OfVersion(v) |-> VanillaLib(e)]
           own == IF loader = "vanilla" THEN << >> ELSE Collected(<< >>, p, asp)
<1>1. libs_arr(loader, p, v) = Collected(own, v, asv)
  BY DEF libs_arr, collect_vanilla_libs, collect_fabric_libs, collect_forge_libs,
         OfProfile, OfVersion
<1>2. p \in Seq(Entry) /\ v \in Seq(Entry)
  BY InputAssumption
<1>3. Range(p) \subseteq Entry /\ Range(v) \subseteq Entry
  BY <1>2, LenProperties, ElementOfSeq DEF Range
<1>4. ASSUME NEW e \in OfProfile(loader, p) PROVE ProfileLib(e) \in D
  <2>1. e \in Entry
    BY <1>3 DEF OfProfile
  <2>2. ProfileLib(e) \in Lib /\ ProfileLib(e).needs_download
    BY <2>1, LibIs DEF ProfileLib, CpLib
  <2> QED
    BY <2>2 DEF OnDisk
<1>5. ASSUME NEW e \in OfVersion(v) PROVE VanillaLib(e) \in D
  <2>1. e \in Entry /\ e \in Range(v) /\ rules_allow_current_os(e.rules)
    BY <1>3 DEF OfVersion
  <2>2. vm_rules_allow(e.rules)
    BY <2>1, ReadAlike
  <2>3. VanillaLib(e) \in Lib
    BY <2>1, LibIs
  <2>4. CASE e.artifact
    <3>1. gav_to_relpath(e) \in version_get_libraries(v)
      BY <2>1, <2>2, <2>4 DEF version_get_libraries
    <3>2. VanillaLib(e).jar = gav_to_relpath(e)
      BY <2>4 DEF VanillaLib, CpLib
    <3> QED
      BY <2>3, <3>1, <3>2 DEF OnDisk
  <2>5. CASE ~e.artifact
    <3>1. VanillaLib(e).needs_download
      BY <2>5 DEF VanillaLib, CpLib
    <3> QED
      BY <2>3, <3>1 DEF OnDisk
  <2> QED
    BY <2>4, <2>5
<1>6. \A e \in DOMAIN asp : asp[e] \in D
  BY <1>4
<1>7. \A e \in DOMAIN asv : asv[e] \in D
  BY <1>5
<1> HIDE DEF D, asp, asv
<1>8. own \in Seq(D)
  <2>1. << >> \in Seq(D)
    OBVIOUS
  <2>2. PICK none \in Seq(D) : none = << >>
    BY <2>1
  <2>3. Collected(none, p, asp) \in Seq(D)
    BY <1>2, <1>6, InD
  <2> QED
    BY <2>2, <2>3
<1> HIDE DEF own
<1>9. PICK arr \in Seq(D) : arr = own
  BY <1>8
<1>10. Collected(arr, v, asv) \in Seq(D)
  BY <1>2, <1>7, InD
<1>11. PICK libs \in Seq(D) : libs = libs_arr(loader, p, v)
  BY <1>1, <1>9, <1>10
<1>12. PICK m \in DOMAIN libs : lib = libs[m]
  BY <1>11 DEF Range
<1>13. lib \in D
  BY <1>12, LenProperties, ElementOfSeq
<1> QED
  BY <1>13 DEF D, OnDisk

-----------------------------------------------------------------------------
(* The version of a loader that is taken.                                  *)

\* What is taken with one more version.
Better(best, v, prefix) ==
    IF Matches(v, prefix) /\ (best = None \/ Compared(v, best) = 1) THEN v ELSE best

\* What the page is sent with one more version.
Listed(out, v, prefix) ==
    IF ~Matches(v, prefix) THEN out
    ELSE [versions |-> Append(out.versions, v),
          latest |-> IF out.latest = None \/ Compared(v, out.latest) = 1 THEN v ELSE out.latest]

\* What a launch takes along the list.
Improves(at, list, prefix) ==
    /\ at \in [0..Len(list) -> Seq(Part)] /\ at[0] = None
    /\ \A i \in 1..Len(list) : at[i] = Better(at[i - 1], list[i], prefix)

\* What the page can be sent.
Page == [versions : Seq(Seq(Part)), latest : Seq(Part)]

\* The same of what the page is sent.
Mounts(at, list, prefix) ==
    /\ at \in [0..Len(list) -> Page] /\ at[0] = [versions |-> << >>, latest |-> None]
    /\ \A i \in 1..Len(list) : at[i] = Listed(at[i - 1], list[i], prefix)

\* What is taken is a version.
LEMMA BetterType ==
  ASSUME NEW best \in Seq(Part), NEW v \in Seq(Part), NEW prefix
  PROVE  Better(best, v, prefix) \in Seq(Part)
BY DEF Better

\* What the page is sent stays of its kind.
LEMMA ListedType ==
  ASSUME NEW out \in Page, NEW v \in Seq(Part), NEW prefix
  PROVE  Listed(out, v, prefix) \in Page
<1>1. out.versions \in Seq(Seq(Part)) /\ out.latest \in Seq(Part)
  BY DEF Page
<1>2. Append(out.versions, v) \in Seq(Seq(Part))
  BY <1>1, AppendProperties
<1>3. Better(out.latest, v, prefix) \in Seq(Part)
  BY <1>1, BetterType
<1> QED
  BY <1>2, <1>3 DEF Listed, Better, Page

\* What a launch takes, one version after the other.
LEMMA TakenIs ==
  ASSUME NEW list \in Seq(Seq(Part)), NEW game
  PROVE  \E at : /\ Improves(at, list, Prefix(game))
                 /\ fetch_neoforge_profile(list, game) = at[Len(list)]
<1> DEFINE n == Len(list)
           S == Seq(Part)
           arr == << >>
           pre == Prefix(game)
           step == [p \in S \X (1..n) |-> Better(p[1], list[p[2]], pre)]
           Folds(it) == it = [s \in SUBSET (1..n) |->
                              IF s = {} THEN arr ELSE Better(it[s \ {Max(s)}], list[Max(s)], pre)]
           g == CHOOSE it : Folds(it)
<1>1. n \in Nat /\ DOMAIN list = 1..n
  BY LenProperties
<1>2. step \in [S \X (1..n) -> S]
  <2>1. \A i \in 1..n : list[i] \in Seq(Part)
    BY <1>1, ElementOfSeq
  <2> QED
    BY <2>1, BetterType
<1>3. \A x \in S, i \in 1..n : step[<<x, i>>] = Better(x, list[i], pre)
  OBVIOUS
<1>8. fetch_neoforge_profile(list, game) = g[1..n]
  BY <1>1 DEF fetch_neoforge_profile, mc_to_neoforge_prefix, cmp_dotted_version, None,
              FoldLeft, MapThenFoldSet, Better
<1>4. arr \in S
  OBVIOUS
<1> HIDE DEF step, n, S, arr, pre
<1>5. PICK it : Goes(it, S, arr, n, step)
  BY <1>1, <1>2, <1>4, FoldExists, Zenon
<1>6. \A s \in SUBSET (1..n) : s # {} => Max(s) \in 1..n /\ it[s \ {Max(s)}] \in S
  BY <1>1, <1>5, GoesThrough, Zenon
<1>7. Folds(it)
  BY <1>3, <1>5, <1>6 DEF Goes
<1>9. Folds(g)
  <2> HIDE DEF Folds
  <2> QED
    BY <1>7, Zenon
<1> HIDE DEF g
<1>10. ASSUME NEW i \in 1..n
       PROVE  g[1..(i - 1)] \in S => g[1..i] = step[<<g[1..(i - 1)], i>>]
  <2>1. /\ 1..i \in SUBSET (1..n) /\ 1..i # {}
        /\ Max(1..i) = i /\ (1..i) \ {Max(1..i)} = 1..(i - 1)
    BY <1>1, Segment
  <2>2. g[1..i] = Better(g[1..(i - 1)], list[i], pre)
    BY <1>9, <2>1
  <2> QED
    BY <1>3, <2>2
<1>11. Rises(g, S, arr, n, step)
  <2>1. g[{}] = arr
    BY <1>9
  <2> QED
    BY <1>2, <1>4, <1>10, <2>1 DEF Rises
<1>12. PICK at : Along(at, S, arr, n, step) /\ g[1..n] = at[n]
  BY <1>1, <1>11, Rungs
<1>13. /\ at \in [0..n -> S] /\ at[0] = arr
       /\ \A i \in 1..n : at[i - 1] \in S /\ at[i] = step[<<at[i - 1], i>>]
  <2>1. \A i \in 1..n : i - 1 \in 0..n
    BY <1>1
  <2> QED
    BY <1>12, <2>1 DEF Along
<1>14. \A i \in 1..n : at[i] = Better(at[i - 1], list[i], pre)
  BY <1>3, <1>13
<1> QED
  BY <1>8, <1>12, <1>13, <1>14 DEF Improves, n, S, arr, pre, None

\* What the page is sent, one version after the other.
LEMMA PageIs ==
  ASSUME NEW list \in Seq(Seq(Part)), NEW game
  PROVE  \E at : /\ Mounts(at, list, Prefix(game))
                 /\ on_get_neoforge_versions(list, game) = at[Len(list)]
<1> DEFINE n == Len(list)
           S == Page
           arr == [versions |-> << >>, latest |-> None]
           pre == Prefix(game)
           step == [p \in S \X (1..n) |-> Listed(p[1], list[p[2]], pre)]
           Folds(it) == it = [s \in SUBSET (1..n) |->
                              IF s = {} THEN arr ELSE Listed(it[s \ {Max(s)}], list[Max(s)], pre)]
           g == CHOOSE it : Folds(it)
<1>1. n \in Nat /\ DOMAIN list = 1..n
  BY LenProperties
<1>4. arr \in S
  <2>1. << >> \in Seq(Part) /\ << >> \in Seq(Seq(Part))
    OBVIOUS
  <2> QED
    BY <2>1 DEF Page, None
<1>8. on_get_neoforge_versions(list, game) = g[1..n]
  BY <1>1 DEF on_get_neoforge_versions, mc_to_neoforge_prefix_ih, cmp_dotted_version_ih, Listed,
              FoldLeft, MapThenFoldSet
<1> HIDE DEF S
<1>2. step \in [S \X (1..n) -> S]
  <2>1. \A i \in 1..n : list[i] \in Seq(Part)
    BY <1>1, ElementOfSeq
  <2> QED
    BY <2>1, ListedType DEF S
<1>3. \A x \in S, i \in 1..n : step[<<x, i>>] = Listed(x, list[i], pre)
  OBVIOUS
<1> HIDE DEF step, n, arr, pre
<1>5. PICK it : Goes(it, S, arr, n, step)
  BY <1>1, <1>2, <1>4, FoldExists, Zenon
<1>6. \A s \in SUBSET (1..n) : s # {} => Max(s) \in 1..n /\ it[s \ {Max(s)}] \in S
  BY <1>1, <1>5, GoesThrough, Zenon
<1>7. Folds(it)
  BY <1>3, <1>5, <1>6 DEF Goes
<1>9. Folds(g)
  <2> HIDE DEF Folds
  <2> QED
    BY <1>7, Zenon
<1> HIDE DEF g
<1>10. ASSUME NEW i \in 1..n
       PROVE  g[1..(i - 1)] \in S => g[1..i] = step[<<g[1..(i - 1)], i>>]
  <2>1. /\ 1..i \in SUBSET (1..n) /\ 1..i # {}
        /\ Max(1..i) = i /\ (1..i) \ {Max(1..i)} = 1..(i - 1)
    BY <1>1, Segment
  <2>2. g[1..i] = Listed(g[1..(i - 1)], list[i], pre)
    BY <1>9, <2>1
  <2> QED
    BY <1>3, <2>2
<1>11. Rises(g, S, arr, n, step)
  <2>1. g[{}] = arr
    BY <1>9
  <2> QED
    BY <1>2, <1>4, <1>10, <2>1 DEF Rises
<1>12. PICK at : Along(at, S, arr, n, step) /\ g[1..n] = at[n]
  BY <1>1, <1>11, Rungs
<1>13. /\ at \in [0..n -> S] /\ at[0] = arr
       /\ \A i \in 1..n : at[i - 1] \in S /\ at[i] = step[<<at[i - 1], i>>]
  <2>1. \A i \in 1..n : i - 1 \in 0..n
    BY <1>1
  <2> QED
    BY <1>12, <2>1 DEF Along
<1>14. \A i \in 1..n : at[i] = Listed(at[i - 1], list[i], pre)
  BY <1>3, <1>13
<1> QED
  BY <1>8, <1>12, <1>13, <1>14 DEF Mounts, n, S, arr, pre

\* Part i of a version, 0 when it has none.
Level(v, i) == IF i \in DOMAIN v THEN v[i].n ELSE 0

\* A part of a version is a number.
LEMMA LevelType ==
  ASSUME NEW v \in Seq(Part), NEW j
  PROVE  Level(v, j) \in Nat
<1>1. CASE j \in DOMAIN v
  <2>1. j \in 1..Len(v)
    BY <1>1, LenProperties
  <2>2. v[j] \in Part
    BY <2>1, ElementOfSeq
  <2> QED
    BY <1>1, <2>2 DEF Level, Part
<1>2. CASE j \notin DOMAIN v
  BY <1>2 DEF Level
<1> QED
  BY <1>1, <1>2

\* Among versions without a suffix a greater part decides, once all before it are
\* the same.
LEMMA GreaterIs ==
  ASSUME NEW a \in Seq(Part), NEW b \in Seq(Part), Stable(a), Stable(b)
  PROVE  Compared(a, b) = 1 <=>
             \E i \in Nat : /\ Level(a, i) > Level(b, i)
                            /\ \A j \in Nat : j < i => Level(a, j) = Level(b, j)
<1> DEFINE At(v, i) == IF i \in DOMAIN v THEN Value(v[i]) ELSE 0
           differ == {i \in DOMAIN a \cup DOMAIN b : At(a, i) # At(b, i)}
           m == Min(differ)
<1>1. /\ DOMAIN a \subseteq Nat /\ \A i \in DOMAIN a : a[i] \in Part
      /\ DOMAIN b \subseteq Nat /\ \A i \in DOMAIN b : b[i] \in Part
  BY LenProperties, ElementOfSeq
<1>2. \A i : /\ At(a, i) = Level(a, i) /\ Level(a, i) \in Nat
             /\ At(b, i) = Level(b, i) /\ Level(b, i) \in Nat
  BY <1>1 DEF Stable, Value, Level, Part
<1>3. differ \in SUBSET Nat
  BY <1>1
<1>4. \A i \in Nat : i \in differ <=> Level(a, i) # Level(b, i)
  BY <1>2 DEF Level
<1>5. differ # {} => m \in differ /\ \A k \in differ : m <= k
  <2> HIDE DEF differ
  <2> QED
    BY <1>3, FirstIn
<1>6. Compared(a, b) = IF differ = {} THEN 0 ELSE IF At(a, m) > At(b, m) THEN 1 ELSE 2
  BY DEF Compared
<1>7. Compared(a, b) = 1 <=> differ # {} /\ Level(a, m) > Level(b, m)
  BY <1>2, <1>6
<1> HIDE DEF differ, m, At
<1>8. ASSUME differ # {}, Level(a, m) > Level(b, m)
      PROVE  \E i \in Nat : /\ Level(a, i) > Level(b, i)
                            /\ \A j \in Nat : j < i => Level(a, j) = Level(b, j)
  <2>1. m \in Nat
    BY <1>3, <1>5, <1>8
  <2>2. ASSUME NEW j \in Nat, j < m PROVE Level(a, j) = Level(b, j)
    <3>1. ~(m <= j)
      BY <2>1, <2>2
    <3> QED
      BY <1>4, <1>5, <1>8, <3>1
  <2> QED
    BY <1>8, <2>1, <2>2
<1>9. ASSUME NEW i \in Nat, Level(a, i) > Level(b, i),
             \A j \in Nat : j < i => Level(a, j) = Level(b, j)
      PROVE  differ # {} /\ Level(a, m) > Level(b, m)
  <2>1. i \in differ
    BY <1>2, <1>4, <1>9
  <2>2. m \in Nat /\ m <= i /\ Level(a, m) # Level(b, m)
    BY <1>3, <1>4, <1>5, <2>1
  <2>3. ~(m < i)
    BY <1>9, <2>2
  <2>4. m = i
    BY <2>2, <2>3
  <2> QED
    BY <1>9, <2>1, <2>4
<1> QED
  BY <1>7, <1>8, <1>9

\* What is greater than a greater one is greater.
LEMMA GreaterStill ==
  ASSUME NEW a \in Seq(Part), NEW b \in Seq(Part), NEW c \in Seq(Part),
         Stable(a), Stable(b), Stable(c), Compared(a, b) = 1, Compared(b, c) = 1
  PROVE  Compared(a, c) = 1
<1>1. PICK i \in Nat : /\ Level(a, i) > Level(b, i)
                       /\ \A j \in Nat : j < i => Level(a, j) = Level(b, j)
  BY GreaterIs
<1>2. PICK k \in Nat : /\ Level(b, k) > Level(c, k)
                       /\ \A j \in Nat : j < k => Level(b, j) = Level(c, j)
  BY GreaterIs
<1>3. \A j \in Nat : Level(a, j) \in Nat /\ Level(b, j) \in Nat /\ Level(c, j) \in Nat
  BY LevelType
<1>4. \E l \in Nat : /\ Level(a, l) > Level(c, l)
                     /\ \A j \in Nat : j < l => Level(a, j) = Level(c, j)
  <2>1. CASE i < k
    <3>1. Level(b, i) = Level(c, i) /\ \A j \in Nat : j < i => j < k
      BY <1>2, <2>1
    <3> QED
      BY <1>1, <1>2, <3>1
  <2>2. CASE k < i
    <3>1. Level(a, k) = Level(b, k) /\ \A j \in Nat : j < k => j < i
      BY <1>1, <2>2
    <3> QED
      BY <1>1, <1>2, <3>1
  <2>3. CASE i = k
    <3>1. /\ Level(a, i) \in Nat /\ Level(b, i) \in Nat /\ Level(c, i) \in Nat
          /\ Level(a, i) > Level(b, i) /\ Level(b, i) > Level(c, i)
      BY <1>1, <1>2, <1>3, <2>3
    <3>2. Level(a, i) > Level(c, i)
      BY <3>1
    <3> QED
      BY <1>1, <1>2, <2>3, <3>2
  <2> QED
    BY <2>1, <2>2, <2>3
<1> QED
  BY <1>4, GreaterIs

\* No version is greater than itself.
LEMMA NotGreater ==
  ASSUME NEW a \in Seq(Part), Stable(a)
  PROVE  Compared(a, a) # 1
<1>1. \A j \in Nat : Level(a, j) \in Nat
  BY LevelType
<1>2. \A j \in Nat : ~(Level(a, j) > Level(a, j))
  BY <1>1
<1> QED
  BY <1>2, GreaterIs

\* What the page is sent, so far: the latest is one of the list, and the newest
\* of it when none has a suffix.
Shown(out, prefix) ==
    /\ out \in Page
    /\ \A v \in Range(out.versions) : Matches(v, prefix)
    /\ IF out.versions = << >> THEN out.latest = None
       ELSE out.latest \in Range(out.versions) /\ out.latest # None
    /\ (\A v \in Range(out.versions) : Stable(v)) =>
           \A v \in Range(out.versions) : Compared(v, out.latest) # 1

\* The elements of a list with one more at its end.
LEMMA RangeAppend ==
  ASSUME NEW S, NEW s \in Seq(S), NEW x \in S
  PROVE  /\ Range(Append(s, x)) = Range(s) \cup {x} /\ Append(s, x) # << >>
         /\ Range(s) \subseteq S
         /\ s = << >> => Range(s) = {}
<1>1. /\ Len(s) \in Nat /\ Len(Append(s, x)) = Len(s) + 1
      /\ DOMAIN s = 1..Len(s) /\ DOMAIN Append(s, x) = 1..(Len(s) + 1)
      /\ \A i \in 1..Len(s) : Append(s, x)[i] = s[i]
      /\ Append(s, x)[Len(s) + 1] = x
  BY AppendIs
<1>2. \A i \in 1..(Len(s) + 1) : i \in 1..Len(s) \/ i = Len(s) + 1
  BY <1>1
<1>3. 1..Len(s) \subseteq 1..(Len(s) + 1) /\ Len(s) + 1 \in 1..(Len(s) + 1)
  BY <1>1
<1>4. Range(Append(s, x)) = Range(s) \cup {x}
  <2>1. Range(Append(s, x)) \subseteq Range(s) \cup {x}
    BY <1>1, <1>2 DEF Range
  <2>2. Range(s) \cup {x} \subseteq Range(Append(s, x))
    <3>1. x \in Range(Append(s, x))
      BY <1>1, <1>3 DEF Range
    <3>2. \A i \in 1..Len(s) : s[i] \in Range(Append(s, x))
      BY <1>1, <1>3 DEF Range
    <3> QED
      BY <1>1, <3>1, <3>2 DEF Range
  <2> QED
    BY <2>1, <2>2
<1>5. Append(s, x) # << >>
  BY AppendProperties
<1>6. Range(s) \subseteq S
  BY <1>1, ElementOfSeq DEF Range
<1>7. s = << >> => Range(s) = {}
  BY DEF Range
<1> QED
  BY <1>4, <1>5, <1>6, <1>7

\* One more version keeps it so.
LEMMA ShownOn ==
  ASSUME NEW out, NEW prefix \in Seq(Nat), Shown(out, prefix), NEW v \in Seq(Part)
  PROVE  Shown(Listed(out, v, prefix), prefix)
<1>1. CASE ~Matches(v, prefix)
  BY <1>1 DEF Listed, Shown
<1>2. CASE Matches(v, prefix)
  <2> DEFINE more == Append(out.versions, v)
             best == IF out.latest = None \/ Compared(v, out.latest) = 1 THEN v ELSE out.latest
             now == Listed(out, v, prefix)
  <2>1. out.versions \in Seq(Seq(Part)) /\ out.latest \in Seq(Part)
    BY DEF Shown, Page
  <2>2. now = [versions |-> more, latest |-> best] /\ now.versions = more /\ now.latest = best
    BY <1>2 DEF Listed
  <2>3. now \in Page
    BY ListedType DEF Shown
  <2>4. /\ Range(more) = Range(out.versions) \cup {v} /\ more # << >>
        /\ Range(out.versions) \subseteq Seq(Part)
        /\ out.versions = << >> => Range(out.versions) = {}
    <3>1. PICK s \in Seq(Seq(Part)) : s = out.versions
      BY <2>1
    <3>2. /\ Range(Append(s, v)) = Range(s) \cup {v} /\ Append(s, v) # << >>
          /\ Range(s) \subseteq Seq(Part)
          /\ s = << >> => Range(s) = {}
      BY RangeAppend
    <3> QED
      BY <3>1, <3>2
  <2>5. v # None
    <3>1. Len(v) > Len(prefix) /\ Len(prefix) \in Nat
      BY <1>2, LenProperties DEF Matches
    <3>2. Len(<< >>) = 0
      OBVIOUS
    <3> QED
      BY <3>1, <3>2 DEF None
  <2>6. \A w \in Range(more) : Matches(w, prefix)
    BY <1>2, <2>4 DEF Shown
  <2>7. out.latest # None => out.latest \in Range(out.versions)
    BY DEF Shown
  <2>8. best \in Range(more) /\ best # None
    BY <2>4, <2>5, <2>7
  <2>9. ASSUME \A w \in Range(more) : Stable(w), NEW w \in Range(more)
        PROVE  Compared(w, best) # 1
    <3>1. /\ \A x \in Range(out.versions) : Stable(x) /\ Compared(x, out.latest) # 1
          /\ Stable(v) /\ Stable(w) /\ w \in Seq(Part)
      BY <2>4, <2>9 DEF Shown
    <3>2. CASE out.latest = None
      <4>1. Range(out.versions) = {}
        BY <2>4, <3>2 DEF Shown
      <4>2. w = v /\ best = v
        BY <2>4, <3>2, <4>1
      <4> QED
        BY <3>1, <4>2, NotGreater
    <3>3. CASE out.latest # None /\ Compared(v, out.latest) = 1
      <4>1. best = v /\ Stable(out.latest)
        BY <2>7, <3>1, <3>3
      <4>2. CASE w = v
        BY <3>1, <4>1, <4>2, NotGreater
      <4>3. CASE w \in Range(out.versions)
        <5>1. Compared(w, v) = 1 => Compared(w, out.latest) = 1
          BY <2>1, <3>1, <3>3, <4>1, GreaterStill
        <5> QED
          BY <3>1, <4>1, <4>3, <5>1
      <4> QED
        BY <2>4, <4>2, <4>3
    <3>4. CASE out.latest # None /\ Compared(v, out.latest) # 1
      <4>1. best = out.latest
        BY <3>4
      <4> QED
        BY <2>4, <3>1, <3>4, <4>1
    <3> QED
      BY <3>2, <3>3, <3>4
  <2> HIDE DEF more, best, now
  <2>10. Shown(now, prefix)
    BY <2>2, <2>3, <2>4, <2>6, <2>8, <2>9 DEF Shown
  <2> QED
    BY <2>10 DEF now
<1> QED
  BY <1>1, <1>2

\* What the versions for a game begin with.
LEMMA PrefixType ==
  ASSUME NEW game \in Games
  PROVE  Prefix(game) \in Seq(Nat)
<1>1. game \in Seq(Nat) /\ game # << >>
  BY GameAssumption
<1>2. \E rest \in Seq(Nat) : Prefix(game) = IF Len(rest) > 1 THEN rest ELSE Append(rest, 0)
  <2>1. Tail(game) \in Seq(Nat)
    BY <1>1, HeadTailProperties
  <2> QED
    BY <1>1, <2>1 DEF Prefix
<1>3. PICK rest \in Seq(Nat) : Prefix(game) = IF Len(rest) > 1 THEN rest ELSE Append(rest, 0)
  BY <1>2
<1>4. Append(rest, 0) \in Seq(Nat)
  BY AppendProperties
<1> QED
  BY <1>3, <1>4

\* For a release they are two numbers, others for each.
LEMMA PrefixIs ==
  ASSUME NEW game \in Games, Release(game)
  PROVE  /\ Prefix(game) \in Seq(Nat) /\ Len(Prefix(game)) = 2
         /\ Prefix(game)[1] = game[2]
         /\ Prefix(game)[2] = IF Len(game) = 3 THEN game[3] ELSE 0
         /\ Len(game) = 3 => game[3] \in Nat \ {0}
<1>1. /\ game \in Seq(Nat) /\ Len(game) \in {2, 3} /\ game[1] = 1
      /\ Len(game) = 3 => game[3] # 0
  BY GameAssumption DEF Release
<1> DEFINE rest == Tail(game)
<1>2. game # << >> /\ Len(game) > 1
  BY <1>1
<1>3. Prefix(game) = IF Len(rest) > 1 THEN rest ELSE Append(rest, 0)
  BY <1>1, <1>2 DEF Prefix
<1>4. /\ rest \in Seq(Nat) /\ Len(rest) = Len(game) - 1
      /\ \A i \in 1..Len(rest) : rest[i] = game[i + 1]
  BY <1>1, <1>2, HeadTailProperties
<1> HIDE DEF rest
<1>5. CASE Len(game) = 2
  <2>1. Len(rest) = 1 /\ 1 \in 1..1 /\ 1 + 1 = 2
    BY <1>4, <1>5
  <2>2. Prefix(game) = Append(rest, 0) /\ 0 \in Nat
    BY <1>3, <2>1
  <2>3. /\ Append(rest, 0) \in Seq(Nat) /\ Len(Append(rest, 0)) = Len(rest) + 1
        /\ \A i \in 1..Len(rest) : Append(rest, 0)[i] = rest[i]
        /\ Append(rest, 0)[Len(rest) + 1] = 0
    BY <1>4, <2>2, AppendIs
  <2> QED
    BY <1>4, <1>5, <2>1, <2>2, <2>3
<1>6. CASE Len(game) = 3
  <2>1. Len(rest) = 2 /\ 1 \in 1..2 /\ 2 \in 1..2 /\ 1 + 1 = 2 /\ 2 + 1 = 3
    BY <1>4, <1>6
  <2>2. Prefix(game) = rest
    BY <1>3, <2>1
  <2>3. game[3] \in Nat
    <3>1. 3 \in 1..Len(game)
      BY <1>6
    <3> QED
      BY <1>1, <3>1, ElementOfSeq
  <2> QED
    BY <1>1, <1>4, <1>6, <2>1, <2>2, <2>3
<1> QED
  BY <1>1, <1>5, <1>6

\* No version is for two releases.
LEMMA ReleasesDiffer ==
  ASSUME NEW g \in Games, NEW h \in Games, NEW v, Release(g), Release(h),
         Matches(v, Prefix(g)), Matches(v, Prefix(h))
  PROVE  g = h
<1>1. /\ DOMAIN Prefix(g) = 1..2 /\ DOMAIN Prefix(h) = 1..2
      /\ 1 \in 1..2 /\ 2 \in 1..2
  BY PrefixIs, LenProperties
<1>2. Prefix(g)[1] = Prefix(h)[1] /\ Prefix(g)[2] = Prefix(h)[2]
  BY <1>1 DEF Matches
<1>3. /\ g \in Seq(Nat) /\ Len(g) \in {2, 3} /\ g[1] = 1
      /\ h \in Seq(Nat) /\ Len(h) \in {2, 3} /\ h[1] = 1
  BY GameAssumption DEF Release
<1>4. /\ g[2] = h[2] /\ Len(g) = Len(h)
      /\ Len(g) = 3 => g[3] = h[3]
  BY <1>2, <1>3, PrefixIs
<1>5. \A i \in 1..Len(g) : g[i] = h[i]
  <2>1. \A i \in 1..2 : i = 1 \/ i = 2
    OBVIOUS
  <2>2. \A i \in 1..3 : i = 1 \/ i = 2 \/ i = 3
    OBVIOUS
  <2>3. CASE Len(g) = 2
    BY <1>3, <1>4, <2>1, <2>3
  <2>4. CASE Len(g) = 3
    BY <1>3, <1>4, <2>2, <2>4
  <2> QED
    BY <1>3, <2>3, <2>4
<1> QED
  BY <1>3, <1>4, <1>5, SeqEqual

\* Nor for two other games of as many numbers.
LEMMA OthersDiffer ==
  ASSUME NEW g \in Games, NEW h \in Games, NEW v,
         Len(g) = Len(h), Len(g) > 1, g[1] # 1, h[1] # 1,
         Matches(v, Prefix(g)), Matches(v, Prefix(h))
  PROVE  g = h
<1>1. g \in Seq(Nat) /\ h \in Seq(Nat)
  BY GameAssumption
<1>2. Prefix(g) = g /\ Prefix(h) = h
  BY DEF Prefix
<1>3. DOMAIN g = 1..Len(g) /\ DOMAIN h = 1..Len(g)
  BY <1>1, LenProperties
<1>4. ASSUME NEW i \in 1..Len(g) PROVE g[i] = h[i]
  <2>1. v[i] = [n |-> g[i], beta |-> FALSE] /\ v[i] = [n |-> h[i], beta |-> FALSE]
    BY <1>2, <1>3 DEF Matches
  <2> QED
    BY <2>1
<1> QED
  BY <1>1, <1>4, SeqEqual

\* So the prefixes tell games of one scheme apart.
LEMMA PrefixesDiffer ==
  ASSUME NEW g \in Games, NEW h \in Games, SameScheme(g, h), NEW v,
         Matches(v, Prefix(g)), Matches(v, Prefix(h))
  PROVE  g = h
BY ReleasesDiffer, OthersDiffer DEF SameScheme

\* What a launch takes and what the page is sent, after the whole list.
LEMMA ShownAll ==
  ASSUME NEW list \in Seq(Seq(Part)), NEW game \in Games
  PROVE  /\ Shown(on_get_neoforge_versions(list, game), Prefix(game))
         /\ fetch_neoforge_profile(list, game) = on_get_neoforge_versions(list, game).latest
<1> DEFINE n == Len(list)
           pre == Prefix(game)
<1>1. PICK b : Improves(b, list, pre) /\ fetch_neoforge_profile(list, game) = b[n]
  BY TakenIs
<1>2. PICK c : Mounts(c, list, pre) /\ on_get_neoforge_versions(list, game) = c[n]
  BY PageIs
<1>3. n \in Nat /\ \A i \in 1..n : list[i] \in Seq(Part)
  BY LenProperties, ElementOfSeq
<1>4. pre \in Seq(Nat)
  BY PrefixType
<1> DEFINE T == {i \in 0..n : Shown(c[i], pre) /\ b[i] = c[i].latest}
<1>5. /\ b \in [0..n -> Seq(Part)] /\ b[0] = None
      /\ \A i \in 1..n : b[i] = Better(b[i - 1], list[i], pre)
  BY <1>1 DEF Improves
<1>6. /\ c \in [0..n -> Page] /\ c[0] = [versions |-> << >>, latest |-> None]
      /\ \A i \in 1..n : c[i] = Listed(c[i - 1], list[i], pre)
  BY <1>2 DEF Mounts
<1> HIDE DEF n, pre
<1>7. 0 \in T
  <2>1. 0 \in 0..n
    BY <1>3
  <2>2. Range(<< >>) = {}
    BY DEF Range
  <2>3. c[0] \in Page /\ c[0].versions = << >> /\ c[0].latest = None
    BY <1>6, <2>1
  <2>4. Shown(c[0], pre)
    BY <2>2, <2>3 DEF Shown
  <2> QED
    BY <1>5, <2>1, <2>3, <2>4
<1>8. ASSUME NEW i \in 1..n, i - 1 \in T PROVE i \in T
  <2>1. i \in 0..n /\ Shown(c[i - 1], pre) /\ b[i - 1] = c[i - 1].latest
    BY <1>3, <1>8
  <2>2. PICK v \in Seq(Part) : v = list[i]
    BY <1>3
  <2>3. Shown(c[i], pre)
    BY <1>4, <1>6, <2>1, <2>2, ShownOn
  <2>4. b[i] = c[i].latest
    <3>1. b[i] = Better(c[i - 1].latest, v, pre) /\ c[i] = Listed(c[i - 1], v, pre)
      BY <1>5, <1>6, <2>1, <2>2
    <3> QED
      BY <3>1 DEF Better, Listed
  <2> QED
    BY <2>1, <2>3, <2>4
<1> HIDE DEF T
<1>9. 0..n \subseteq T
  BY <1>3, <1>7, <1>8, Climb
<1>10. n \in T
  BY <1>3, <1>9
<1> QED
  BY <1>1, <1>2, <1>10 DEF T, pre

\* NeoForge: the version a launch takes is the one the page is told is the latest,
\* one of those it is offered, none of another game's, and the newest of builds
\* without a suffix.
THEOREM NeoForgeOfferedHolds == NeoForgeOffered
<1> SUFFICES ASSUME NEW list \in Builds, NEW game \in Games
             PROVE  LET page == on_get_neoforge_versions(list, game)
                        taken == fetch_neoforge_profile(list, game)
                    IN  /\ taken = page.latest
                        /\ IF page.versions = << >> THEN taken = None
                           ELSE taken \in Range(page.versions)
                        /\ \A g \in Games \ {game} : SameScheme(g, game) =>
                               Range(page.versions)
                                   \cap Range(on_get_neoforge_versions(list, g).versions) = {}
                        /\ (\A v \in Range(page.versions) : Stable(v)) =>
                               \A v \in Range(page.versions) : cmp_dotted_version_ih(v, taken) # 1
  BY DEF NeoForgeOffered
<1> DEFINE page == on_get_neoforge_versions(list, game)
<1>1. list \in Seq(Seq(Part))
  BY ListAssumption
<1>2. ASSUME NEW g \in Games
      PROVE  /\ Shown(on_get_neoforge_versions(list, g), Prefix(g))
             /\ fetch_neoforge_profile(list, g) = on_get_neoforge_versions(list, g).latest
  BY <1>1, ShownAll
<1>3. ASSUME NEW g \in Games \ {game}, SameScheme(g, game)
      PROVE  Range(page.versions) \cap Range(on_get_neoforge_versions(list, g).versions) = {}
  <2>1. \A v \in Range(page.versions) : Matches(v, Prefix(game))
    BY <1>2 DEF Shown
  <2>2. \A v \in Range(on_get_neoforge_versions(list, g).versions) : Matches(v, Prefix(g))
    BY <1>2 DEF Shown
  <2> HIDE DEF page
  <2> QED
    BY <1>3, <2>1, <2>2, PrefixesDiffer
<1>4. Shown(page, Prefix(game)) /\ fetch_neoforge_profile(list, game) = page.latest
  BY <1>2
<1> HIDE DEF page
<1>5. IF page.versions = << >> THEN page.latest = None ELSE page.latest \in Range(page.versions)
  BY <1>4 DEF Shown
<1>6. (\A v \in Range(page.versions) : Stable(v)) =>
          \A v \in Range(page.versions) : Compared(v, page.latest) # 1
  BY <1>4 DEF Shown
<1> QED
  BY <1>3, <1>4, <1>5, <1>6 DEF page, cmp_dotted_version_ih

\* Forge: the recommended version if the page is offered one, else the latest.
THEOREM ForgeOfferedHolds == ForgeOffered
<1> SUFFICES ASSUME NEW promos \in Promotions, NEW game \in Games
             PROVE  LET page == on_get_forge_versions(promos, game)
                        taken == fetch_forge_profile(promos, game)
                    IN  IF page = {} THEN taken = None
                        ELSE \E e \in page : /\ e.version = taken
                                             /\ e.recommended \/ \A f \in page : ~f.recommended
  BY DEF ForgeOffered
<1> DEFINE page == on_get_forge_versions(promos, game)
           taken == fetch_forge_profile(promos, game)
           Of(k) == [version |-> promos[k], recommended |-> k[2] = "recommended"]
           first == <<game, "recommended">>
           second == <<game, "latest">>
<1>1. DOMAIN promos \subseteq Seq(Nat) \X {"recommended", "latest"}
  BY ListAssumption
<1>2. \A k \in DOMAIN promos : k[1] = game => k = first \/ k = second
  BY <1>1
<1>3. page = {Of(k) : k \in {k \in DOMAIN promos : k[1] = game}}
  BY DEF on_get_forge_versions
<1>4. /\ first[1] = game /\ first[2] = "recommended"
      /\ second[1] = game /\ second[2] # "recommended"
  OBVIOUS
<1>5. taken = IF first \in DOMAIN promos THEN promos[first]
              ELSE IF second \in DOMAIN promos THEN promos[second] ELSE None
  BY DEF fetch_forge_profile
<1> HIDE DEF first, second, taken
<1>6. CASE first \in DOMAIN promos
  <2>1. Of(first) \in page /\ Of(first).version = taken /\ Of(first).recommended
    BY <1>3, <1>4, <1>5, <1>6
  <2> QED
    BY <2>1 DEF taken
<1>7. CASE first \notin DOMAIN promos /\ second \in DOMAIN promos
  <2>1. Of(second) \in page /\ Of(second).version = taken
    BY <1>3, <1>4, <1>5, <1>7
  <2>2. \A f \in page : f = Of(second)
    BY <1>2, <1>3, <1>7
  <2>3. ~Of(second).recommended
    BY <1>4
  <2> QED
    BY <2>1, <2>2, <2>3 DEF taken
<1>8. CASE first \notin DOMAIN promos /\ second \notin DOMAIN promos
  <2>1. page = {}
    BY <1>2, <1>3, <1>8
  <2> QED
    BY <1>5, <1>8, <2>1 DEF taken
<1> QED
  BY <1>6, <1>7, <1>8

\* Fabric and Quilt: the first of the list the page is sent.
THEOREM ListOfferedHolds == ListOffered
<1>1. ASSUME NEW list \in Builds
      PROVE  IF list = << >> THEN TRUE ELSE list[1] \in Range(list)
  <2>1. list \in Seq(Seq(Part))
    BY ListAssumption
  <2>2. CASE list # << >>
    <3>1. Len(list) \in Nat /\ Len(list) # 0 /\ DOMAIN list = 1..Len(list)
      BY <2>1, <2>2, EmptySeq, LenProperties
    <3>2. 1 \in DOMAIN list
      BY <3>1
    <3> QED
      BY <3>2 DEF Range
  <2> QED
    BY <2>2
<1> QED
  BY <1>1 DEF ListOffered, on_get_fabric_versions, on_get_quilt_versions,
              fetch_fabric_profile, fetch_quilt_profile

-----------------------------------------------------------------------------
(* What a launch chooses.                                                  *)

\* Whatever the version file and the profile of the loader list, a library is on
\* the class path in the version that came first and in no other, nothing is left
\* out while there is room, and all of it is fetched (collect_fabric_libs,
\* collect_forge_libs, collect_vanilla_libs, version_get_libraries).
THEOREM FirstVersionWinsHolds == AllSpec => []FirstVersionWins
<1>1. TypeOK => FirstVersionWins
  <2> SUFFICES ASSUME TypeOK PROVE FirstOf(play.loader) /\ AllFetched(play.loader)
    BY DEF FirstVersionWins
  <2>1. play.loader \in {"vanilla", "fabric", "forge"}
    BY PlayAssumption DEF TypeOK
  <2> QED
    BY <2>1, FirstOfHolds, AllFetchedHolds
<1> QED
  BY <1>1, TypeCorrect, PTL

\* Whatever the names, the memory and the profile, the class path is whole or has
\* no client, the heap starts no larger than it may grow, and the arguments fit
\* (build_classpath, build_launch_argv, forge_extract_extra_args).
THEOREM CommandFitsHolds == AllSpec => []CommandFits
<1>1. CommandFits
  BY NoneLostHolds, HeapFitsHolds, ArgumentsFitHolds DEF CommandFits
<1> QED
  BY <1>1, PTL

\* Whatever the servers list, a launch installs a version the page is offered for
\* the same game (fetch_neoforge_profile, fetch_forge_profile, fetch_fabric_profile,
\* on_get_neoforge_versions, on_get_forge_versions).
THEOREM VersionOfferedHolds == AllSpec => []VersionOffered
<1>1. VersionOffered
  BY NeoForgeOfferedHolds, ForgeOfferedHolds, ListOfferedHolds DEF VersionOffered, Offered
<1> QED
  BY <1>1, PTL

=============================================================================
