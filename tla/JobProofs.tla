------------------------------ MODULE JobProofs ------------------------------
(***************************************************************************)
(* Theorems about the script of a pod, for any number of scripts with any   *)
(* number of init containers and containers.                                *)
(***************************************************************************)
EXTENDS JobScript, SequenceTheorems, TLAPS

------------------------------------------------------------------------------
(* The containers of a job, in order *)

\* How many init containers, containers, and both.
LI(j) == Len(Inits[j])
LM(j) == Len(Mains[j])
LO(j) == Len(Order(j))

LEMMA OrderFacts ==
    ASSUME NEW j \in Jobs
    PROVE  /\ LI(j) \in Nat /\ LM(j) \in Nat \ {0}
           /\ LO(j) = LI(j) + LM(j)
           /\ DOMAIN Order(j) = 1..LO(j)
           /\ \A i \in 1..LI(j) : Order(j)[i] = Inits[j][i]
           /\ \A i \in 1..LM(j) : Order(j)[LI(j) + i] = Mains[j][i]
  <1>1. Inits[j] \in Seq(Names) /\ Mains[j] \in Seq(Names) /\ Mains[j] # <<>>
    BY ScriptAssumption
  <1>2. LI(j) \in Nat /\ LM(j) \in Nat \ {0}
    BY <1>1 DEF LI, LM
  <1>3. /\ Order(j) \in Seq(Names) /\ LO(j) = LI(j) + LM(j)
        /\ \A i \in 1..LI(j) + LM(j) :
              Order(j)[i] = IF i <= LI(j) THEN Inits[j][i] ELSE Mains[j][i - LI(j)]
    BY <1>1, ConcatProperties DEF LI, LM, LO, Order
  <1>4. DOMAIN Order(j) = 1..LO(j)
    BY <1>3 DEF LO
  <1>5. \A i \in 1..LI(j) : Order(j)[i] = Inits[j][i]
    BY <1>2, <1>3
  <1>6. ASSUME NEW i \in 1..LM(j)
        PROVE  Order(j)[LI(j) + i] = Mains[j][i]
    <2>1. /\ LI(j) + i \in 1..LI(j) + LM(j) /\ ~(LI(j) + i <= LI(j))
          /\ (LI(j) + i) - LI(j) = i
      BY <1>2
    <2> QED BY <1>3, <2>1
  <1> QED BY <1>2, <1>3, <1>4, <1>5, <1>6

LEMMA ContainerFacts ==
    ASSUME NEW j \in Jobs
    PROVE  /\ \A i \in 1..LO(j) : Order(j)[i] \in Containers(j)
           /\ \A c \in Containers(j) : \E i \in 1..LO(j) : c = Order(j)[i]
           /\ \A i, k \in 1..LO(j) : Order(j)[i] = Order(j)[k] => i = k
  BY OrderFacts, ScriptAssumption DEF Containers

LEMMA Turn ==
    ASSUME NEW j \in Jobs
    PROVE  /\ \A i \in 1..LI(j) : i \in 1..LO(j) /\ Inits[j][i] = Order(j)[i]
           /\ \A i \in 1..LM(j) : LI(j) + i \in 1..LO(j) /\ Mains[j][i] = Order(j)[LI(j) + i]
           /\ 1 \in 1..LO(j)
  BY OrderFacts

\* Something of each container of each job.
OfContainers(f, S) ==
    DOMAIN f = Jobs /\ \A j \in Jobs : f[j] \in [Containers(j) -> S]

\* g is f but for one container.
OneSet(g, f, j, k, v) ==
    /\ g[j][Order(j)[k]] = v
    /\ \A i \in 1..LO(j) : i # k => g[j][Order(j)[i]] = f[j][Order(j)[i]]
    /\ \A i \in Jobs : i # j => g[i] = f[i]

LEMMA SetOne ==
    ASSUME NEW S, NEW f, OfContainers(f, S), NEW j \in Jobs, NEW k \in 1..LO(j), NEW v \in S,
           NEW g, g = [f EXCEPT ![j][Order(j)[k]] = v]
    PROVE  OfContainers(g, S) /\ OneSet(g, f, j, k, v)
  <1> DEFINE c == Order(j)[k]
  <1>1. c \in Containers(j)
    BY ContainerFacts
  <1>2. g = [f EXCEPT ![j] = [f[j] EXCEPT ![c] = v]]
    OBVIOUS
  <1>3. [f[j] EXCEPT ![c] = v] \in [Containers(j) -> S]
    BY DEF OfContainers
  <1>4. OfContainers(g, S) /\ \A i \in Jobs : i # j => g[i] = f[i]
    BY <1>2, <1>3 DEF OfContainers
  <1>5. g[j] = [f[j] EXCEPT ![c] = v]
    BY <1>2 DEF OfContainers
  <1>6. g[j][c] = v
    BY <1>1, <1>5 DEF OfContainers
  <1>7. ASSUME NEW i \in 1..LO(j), i # k
        PROVE  g[j][Order(j)[i]] = f[j][Order(j)[i]]
    <2>1. Order(j)[i] \in Containers(j) /\ Order(j)[i] # c
      BY <1>7, ContainerFacts
    <2> QED BY <1>5, <2>1 DEF OfContainers
  <1> QED BY <1>4, <1>6, <1>7 DEF OneSet

LEMMA SetAll ==
    ASSUME NEW S, NEW f, OfContainers(f, S), NEW j \in Jobs, NEW v \in S,
           NEW g, g = [f EXCEPT ![j] = All(j, v)]
    PROVE  /\ OfContainers(g, S)
           /\ g[j] = All(j, v)
           /\ \A i \in Jobs : i # j => g[i] = f[i]
  BY DEF OfContainers, All

------------------------------------------------------------------------------
(* Types *)

\* The container a section has come to is one of its own.
Counted(j) ==
    /\ at[j] = "images" => next[j] \in 1..LO(j)
    /\ at[j] = "init" => next[j] \in 1..LI(j)
    /\ at[j] \in {"launch", "wait"} => next[j] \in 1..LM(j)
    /\ at[j] \notin {"images", "init", "launch", "wait"} => next[j] = 1

TypeInv ==
    /\ CacheTypeOK
    /\ at \in [Jobs -> Sections]
    /\ DOMAIN next = Jobs /\ \A j \in Jobs : Counted(j)
    /\ OfContainers(image, Images)
    /\ OfContainers(process, Codes \cup {"no", "running"})
    /\ OfContainers(code, Codes \cup {NoCode})
    /\ OfContainers(tar, Codes \cup {NoCode})
    /\ volumes \in [Jobs -> {"no", "ready", "cleaned"}]
    /\ signal \in [Jobs -> {"no", "pending", "handled"}]

LEMMA TypeInvType == TypeInv => JobTypeOK
  <1> SUFFICES ASSUME TypeInv PROVE JobTypeOK
    OBVIOUS
  <1>1. ASSUME NEW j \in Jobs
        PROVE  next[j] \in DOMAIN Order(j)
    <2>1. Counted(j) /\ DOMAIN Order(j) = 1..LO(j)
      BY OrderFacts DEF TypeInv
    <2>2. next[j] \in 1..LO(j) \/ next[j] \in 1..LI(j) \/ next[j] \in 1..LM(j) \/ next[j] = 1
      BY <2>1 DEF Counted
    <2>3. 1..LI(j) \subseteq 1..LO(j) /\ 1..LM(j) \subseteq 1..LO(j) /\ 1 \in 1..LO(j)
      BY OrderFacts
    <2> QED BY <2>1, <2>2, <2>3
  <1> QED BY <1>1 DEF TypeInv, JobTypeOK, OfContainers

LEMMA TypeInvInit == JobInit => TypeInv
  <1> SUFFICES ASSUME JobInit PROVE TypeInv
    OBVIOUS
  <1>1. CacheTypeOK
    <2>1. 1 \in Versions
      BY CacheAssumption DEF Versions
    <2>2. Begin \in Selection
      BY DEF Begin, Selection, Images
    <2> QED BY <2>1, <2>2 DEF JobInit, CacheInit, CacheTypeOK
  <1>2. ASSUME NEW j \in Jobs PROVE Counted(j)
    <2>1. at[j] = "images" /\ next[j] = 1
      BY DEF JobInit
    <2> QED BY <2>1, Turn DEF Counted
  <1>3. /\ OfContainers(image, Images)
        /\ OfContainers(process, Codes \cup {"no", "running"})
        /\ OfContainers(code, Codes \cup {NoCode})
        /\ OfContainers(tar, Codes \cup {NoCode})
    BY DEF JobInit, OfContainers, All, Images
  <1> QED
    BY <1>1, <1>2, <1>3 DEF JobInit, TypeInv, Sections

LEMMA SelectSet ==
    ASSUME CacheTypeOK, NEW j \in Jobs, NEW x \in Selection,
           select' = [select EXCEPT ![j] = x], remote' = remote,
           cached' \in Versions \cup {NoImage}
    PROVE  CacheTypeOK'
  BY DEF CacheTypeOK

LEMMA ChooseType ==
    ASSUME NEW i \in Images
    PROVE  [Begin EXCEPT !.at = "chosen", !.image = i] \in Selection
  BY DEF Begin, Selection, Images

LEMMA SelectType ==
    ASSUME CacheTypeOK, NEW j \in Jobs, SelectStep(j)
    PROVE  CacheTypeOK'
  <1>1. /\ select[j] \in Selection /\ remote \in Versions
        /\ cached \in Versions \cup {NoImage}
        /\ select[j].tmp \in Versions \cup {NoImage}
    BY DEF CacheTypeOK, Selection
  <1>2. CASE AskMd5(j)
    <2>1. PICK version \in {remote, NoImage} :
              select' = [select EXCEPT ![j] = [Begin EXCEPT !.at = "look", !.asked = version]]
      BY <1>2 DEF AskMd5
    <2>2. [Begin EXCEPT !.at = "look", !.asked = version] \in Selection
      BY <1>1 DEF Begin, Selection, Images
    <2> QED BY <1>1, <1>2, <2>1, <2>2, SelectSet DEF AskMd5
  <1>3. CASE UseStatic(j) \/ UseBuilt(j)
    <2>1. "uncached" \in Images
      BY DEF Images
    <2> QED BY <1>1, <1>3, <2>1, ChooseType, SelectSet DEF UseStatic, UseBuilt, Choose
  <1>4. CASE UseCached(j) \/ MoveIn(j)
    <2>1. "cached" \in Images
      BY DEF Images
    <2> QED BY <1>1, <1>4, <2>1, ChooseType, SelectSet DEF UseCached, MoveIn, Choose
  <1>5. CASE LookFails(j) \/ MoveAway(j)
    <2>1. /\ [select[j] EXCEPT !.at = "download"] \in Selection
          /\ [select[j] EXCEPT !.at = "replace"] \in Selection
      BY <1>1 DEF Selection
    <2>2. /\ remote' = remote /\ cached' \in Versions \cup {NoImage}
          /\ \/ select' = [select EXCEPT ![j] = [select[j] EXCEPT !.at = "download"]]
             \/ select' = [select EXCEPT ![j] = [select[j] EXCEPT !.at = "replace"]]
      BY <1>1, <1>5 DEF LookFails, MoveAway
    <2> QED BY <2>1, <2>2, SelectSet
  <1>6. CASE Download(j)
    <2>1. PICK version \in {remote, NoImage} :
              select' = [select EXCEPT ![j].at = "verify", ![j].tmp = version]
      BY <1>6 DEF Download
    <2>2. [select[j] EXCEPT !.at = "verify", !.tmp = version] \in Selection
      BY <1>1 DEF Selection
    <2>3. select' = [select EXCEPT ![j] = [select[j] EXCEPT !.at = "verify", !.tmp = version]]
      BY <1>1, <2>1 DEF CacheTypeOK, Selection
    <2> QED BY <1>1, <1>6, <2>2, <2>3, SelectSet DEF Download
  <1> QED BY <1>2, <1>3, <1>4, <1>5, <1>6 DEF SelectStep

\* Where a script goes from its place.
Moved(j, section, n) ==
    /\ at' \in [Jobs -> Sections] /\ at'[j] = section
    /\ DOMAIN next' = Jobs /\ next'[j] = n
    /\ \A i \in Jobs : i # j => at'[i] = at[i] /\ next'[i] = next[i]

LEMMA GotoMoves ==
    ASSUME TypeInv, NEW j \in Jobs, NEW section \in Sections, Goto(j, section)
    PROVE  Moved(j, section, 1)
  BY DEF TypeInv, Goto, Moved

LEMMA AdvanceMoves ==
    ASSUME TypeInv, NEW j \in Jobs, NEW list, NEW section \in Sections, Advance(j, list, section)
    PROVE  \/ next[j] = Len(list) /\ Moved(j, section, 1)
           \/ next[j] # Len(list) /\ Moved(j, at[j], next[j] + 1)
  <1>1. CASE next[j] = Len(list)
    BY <1>1, GotoMoves DEF Advance
  <1>2. CASE next[j] # Len(list)
    BY <1>2 DEF Advance, TypeInv, Moved
  <1> QED BY <1>1, <1>2

LEMMA MovedCounted ==
    ASSUME TypeInv, NEW j \in Jobs, NEW section, NEW n, Moved(j, section, n),
           Counted(j)'
    PROVE  /\ at' \in [Jobs -> Sections] /\ DOMAIN next' = Jobs
           /\ \A i \in Jobs : Counted(i)'
  <1> SUFFICES ASSUME NEW i \in Jobs, i # j PROVE Counted(i)'
    BY DEF Moved
  <1> QED BY DEF Moved, TypeInv, Counted

\* The rest of the types, where a script moves.
LEMMA MovedType ==
    ASSUME TypeInv, NEW j \in Jobs, NEW section, NEW n, Moved(j, section, n), Counted(j)',
           CacheTypeOK', OfContainers(image, Images)',
           OfContainers(process, Codes \cup {"no", "running"})',
           OfContainers(code, Codes \cup {NoCode})',
           OfContainers(tar, Codes \cup {NoCode})',
           volumes' \in [Jobs -> {"no", "ready", "cleaned"}],
           signal' \in [Jobs -> {"no", "pending", "handled"}]
    PROVE  TypeInv'
  BY MovedCounted DEF TypeInv

LEMMA SameOf ==
    ASSUME NEW S, NEW f, OfContainers(f, S), NEW g, g = f
    PROVE  OfContainers(g, S)
  OBVIOUS

LEMMA VolumesSet ==
    ASSUME TypeInv, NEW j \in Jobs, NEW v \in {"ready", "cleaned"},
           volumes' = [volumes EXCEPT ![j] = v]
    PROVE  /\ volumes' \in [Jobs -> {"no", "ready", "cleaned"}] /\ volumes'[j] = v
           /\ \A i \in Jobs : i # j => volumes'[i] = volumes[i]
  BY DEF TypeInv

LEMMA SignalSet ==
    ASSUME TypeInv, NEW j \in Jobs, NEW v \in {"pending", "handled"},
           signal' = [signal EXCEPT ![j] = v]
    PROVE  /\ signal' \in [Jobs -> {"no", "pending", "handled"}] /\ signal'[j] = v
           /\ \A i \in Jobs : i # j => signal'[i] = signal[i]
  BY DEF TypeInv

\* Run starts the container at its place, or it fails.
LEMMA RunTypes ==
    ASSUME TypeInv, NEW j \in Jobs, NEW k \in 1..LO(j), Run(j, Order(j)[k])
    PROVE  /\ OfContainers(process, Codes \cup {"no", "running"})'
           /\ OfContainers(image, Images)'
           /\ process'[j][Order(j)[k]] \in {"running", "error"}
           /\ \A i \in 1..LO(j) : i # k => process'[j][Order(j)[i]] = process[j][Order(j)[i]]
           /\ \A i \in Jobs : i # j => process'[i] = process[i]
  <1> DEFINE v == IF Opens(image[j][Order(j)[k]]) THEN "running" ELSE "error"
  <1>1. v \in {"running", "error"} /\ v \in Codes \cup {"no", "running"}
    BY DEF Codes
  <1>2. process' = [process EXCEPT ![j][Order(j)[k]] = v]
    BY DEF Run
  <1>3. image' = [image EXCEPT ![j][Order(j)[k]] = "none"] /\ "none" \in Images
    BY DEF Run, Images
  <1> HIDE DEF v
  <1>4. OfContainers(image, Images)'
    <2>1. OfContainers(image, Images)
      BY DEF TypeInv
    <2> QED BY <1>3, <2>1, SetOne
  <1> DEFINE S == Codes \cup {"no", "running"}
  <1>5. OfContainers(process, S) /\ v \in S
    BY <1>1 DEF TypeInv
  <1> HIDE DEF S
  <1>6. OfContainers(process', S) /\ OneSet(process', process, j, k, v)
    BY <1>2, <1>5, SetOne
  <1> QED BY <1>1, <1>4, <1>6 DEF S, OneSet

\* A return code is written at its place.
LEMMA CodeTypes ==
    ASSUME TypeInv, NEW j \in Jobs, NEW k \in 1..LO(j), NEW v \in Codes,
           code' = [code EXCEPT ![j][Order(j)[k]] = v]
    PROVE  OfContainers(code, Codes \cup {NoCode})' /\ OneSet(code', code, j, k, v)
  <1> DEFINE S == Codes \cup {NoCode}
  <1>1. OfContainers(code, S) /\ v \in S
    BY DEF TypeInv
  <1> HIDE DEF S
  <1>2. OfContainers(code', S) /\ OneSet(code', code, j, k, v)
    BY <1>1, SetOne
  <1> QED BY <1>2 DEF S

\* The container of the section, at its place in the order.
LEMMA PlaceOf ==
    ASSUME TypeInv, NEW j \in Jobs
    PROVE  /\ at[j] = "images" => next[j] \in 1..LO(j)
           /\ at[j] = "init" => /\ next[j] \in 1..LI(j) /\ next[j] \in 1..LO(j)
                                /\ Inits[j][next[j]] = Order(j)[next[j]]
           /\ at[j] \in {"launch", "wait"} =>
                /\ next[j] \in 1..LM(j) /\ LI(j) + next[j] \in 1..LO(j)
                /\ Mains[j][next[j]] = Order(j)[LI(j) + next[j]]
  BY Turn DEF TypeInv, Counted

\* Advance keeps to the containers of the section, or enters the next one at its first.
LEMMA AdvanceCounted ==
    ASSUME TypeInv, NEW j \in Jobs,
           \/ at[j] = "images" /\ Advance(j, Order(j), "volumes")
           \/ at[j] = "init" /\ Advance(j, Inits[j], "launch")
           \/ at[j] = "launch" /\ Advance(j, Mains[j], "wait")
           \/ at[j] = "wait" /\ Advance(j, Mains[j], "logs")
    PROVE  Counted(j)' /\ \E section, n : Moved(j, section, n)
  <1>1. /\ LI(j) \in Nat /\ LM(j) \in Nat /\ LM(j) >= 1 /\ LO(j) \in Nat
        /\ {"volumes", "launch", "wait", "logs"} \subseteq Sections
    BY OrderFacts DEF Sections
  <1>2. CASE at[j] = "images" /\ Advance(j, Order(j), "volumes")
    <2>1. \/ Moved(j, "volumes", 1)
          \/ next[j] # LO(j) /\ Moved(j, "images", next[j] + 1)
      BY <1>1, <1>2, AdvanceMoves DEF LO
    <2> QED BY <1>1, <1>2, <2>1, PlaceOf DEF Moved, Counted
  <1>3. CASE at[j] = "init" /\ Advance(j, Inits[j], "launch")
    <2>1. \/ Moved(j, "launch", 1)
          \/ next[j] # LI(j) /\ Moved(j, "init", next[j] + 1)
      BY <1>1, <1>3, AdvanceMoves DEF LI
    <2> QED BY <1>1, <1>3, <2>1, PlaceOf DEF Moved, Counted
  <1>4. CASE at[j] = "launch" /\ Advance(j, Mains[j], "wait")
    <2>1. \/ Moved(j, "wait", 1)
          \/ next[j] # LM(j) /\ Moved(j, "launch", next[j] + 1)
      BY <1>1, <1>4, AdvanceMoves DEF LM
    <2> QED BY <1>1, <1>4, <2>1, PlaceOf DEF Moved, Counted
  <1>5. CASE at[j] = "wait" /\ Advance(j, Mains[j], "logs")
    <2>1. \/ Moved(j, "logs", 1)
          \/ next[j] # LM(j) /\ Moved(j, "wait", next[j] + 1)
      BY <1>1, <1>5, AdvanceMoves DEF LM
    <2> QED BY <1>1, <1>5, <2>1, PlaceOf DEF Moved, Counted
  <1> QED BY <1>2, <1>3, <1>4, <1>5

\* A container that is waited for was started.
Launched(j) == \A i \in LI(j) + 1..LO(j) : process[j][Order(j)[i]] # "no"

LEMMA TypeInvStep ==
    ASSUME TypeInv, \A j \in Jobs : at[j] = "wait" => Launched(j), [JobNext]_vars
    PROVE  TypeInv'
  <1>1. ASSUME NEW j \in Jobs, FindImage(j)
        PROVE  TypeInv'
    <2>1. CacheTypeOK'
      BY <1>1, SelectType DEF FindImage, TypeInv
    <2> QED BY <1>1, <2>1 DEF FindImage, scriptVars, TypeInv, Counted
  <1>2. ASSUME NEW j \in Jobs, ImageFound(j)
        PROVE  TypeInv'
    <2>1. Counted(j)' /\ \E section, n : Moved(j, section, n)
      BY <1>2, AdvanceCounted DEF ImageFound
    <2>2. CacheTypeOK'
      <3>1. Begin \in Selection
        BY DEF Begin, Selection, Images
      <3> QED BY <1>2, <3>1, SelectSet DEF ImageFound, TypeInv, CacheTypeOK
    <2>3. OfContainers(image, Images)'
      <3>1. /\ next[j] \in 1..LO(j) /\ select[j].image \in Images
            /\ OfContainers(image, Images)
            /\ image' = [image EXCEPT ![j][Order(j)[next[j]]] = select[j].image]
        BY <1>2, PlaceOf DEF ImageFound, TypeInv, CacheTypeOK, Selection
      <3> QED BY <3>1, SetOne
    <2> QED BY <1>2, <2>1, <2>2, <2>3, MovedType DEF ImageFound, TypeInv
  <1>3. ASSUME NEW j \in Jobs, PrepareVolumes(j)
        PROVE  TypeInv'
    <2> DEFINE section == IF Inits[j] = <<>> THEN "launch" ELSE "init"
    <2>1. section \in Sections
      BY DEF Sections
    <2>2. Moved(j, section, 1)
      BY <1>3, <2>1, GotoMoves DEF PrepareVolumes
    <2>3. Counted(j)'
      <3>1. Inits[j] # <<>> => LI(j) >= 1
        BY ScriptAssumption, EmptySeq DEF LI
      <3> QED BY <2>2, <3>1, OrderFacts DEF Moved, Counted
    <2>4. volumes' \in [Jobs -> {"no", "ready", "cleaned"}]
      BY <1>3, VolumesSet DEF PrepareVolumes, Initialize
    <2> HIDE DEF section
    <2> QED
      BY <1>3, <2>2, <2>3, <2>4, MovedType
      DEF PrepareVolumes, TypeInv, cacheVars, CacheTypeOK
  <1>4. ASSUME NEW j \in Jobs, RunInit(j)
        PROVE  TypeInv'
    <2>1. next[j] \in 1..LO(j) /\ Run(j, Order(j)[next[j]])
      BY <1>4, PlaceOf DEF RunInit, InSection
    <2> QED
      BY <1>4, <2>1, RunTypes DEF RunInit, TypeInv, cacheVars, CacheTypeOK, Counted
  <1>5. ASSUME NEW j \in Jobs, InitReturns(j) \/ Wait(j)
        PROVE  TypeInv'
    <2>1. Counted(j)' /\ \E section, n : Moved(j, section, n)
      BY <1>5, AdvanceCounted DEF InitReturns, Wait, InSection
    <2>2. \E k \in 1..LO(j), v \in Codes : code' = [code EXCEPT ![j][Order(j)[k]] = v]
      BY <1>5, PlaceOf DEF InitReturns, Wait, InSection
    <2>3. OfContainers(code, Codes \cup {NoCode})'
      BY <2>2, CodeTypes
    <2> QED
      BY <1>5, <2>1, <2>3, MovedType
      DEF InitReturns, Wait, TypeInv, cacheVars, CacheTypeOK
  <1>6. ASSUME NEW j \in Jobs, Launch(j)
        PROVE  TypeInv'
    <2>1. Counted(j)' /\ \E section, n : Moved(j, section, n)
      BY <1>6, AdvanceCounted DEF Launch, InSection
    <2>2. LI(j) + next[j] \in 1..LO(j) /\ Run(j, Order(j)[LI(j) + next[j]])
      BY <1>6, PlaceOf DEF Launch, InSection
    <2>3. /\ OfContainers(process, Codes \cup {"no", "running"})'
          /\ OfContainers(image, Images)'
      BY <2>2, RunTypes
    <2> QED
      BY <1>6, <2>1, <2>3, MovedType DEF Launch, TypeInv, cacheVars, CacheTypeOK
  <1>7. ASSUME NEW j \in Jobs, Tar(j)
        PROVE  TypeInv'
    <2>1. Moved(j, "exit", 1) /\ Counted(j)'
      BY <1>7, GotoMoves DEF Tar, Sections, Moved, Counted
    <2>2. OfContainers(tar, Codes \cup {NoCode})'
      BY <1>7 DEF Tar, TypeInv, OfContainers
    <2> QED BY <1>7, <2>1, <2>2, MovedType DEF Tar, TypeInv, cacheVars, CacheTypeOK
  <1>8. ASSUME NEW j \in Jobs, Exit(j)
        PROVE  TypeInv'
    <2>1. Moved(j, "done", 1) /\ Counted(j)'
      BY <1>8, GotoMoves DEF Exit, Sections, Moved, Counted
    <2>2. volumes' \in [Jobs -> {"no", "ready", "cleaned"}]
      BY <1>8, VolumesSet DEF Exit, Cleanup
    <2> QED BY <1>8, <2>1, <2>2, MovedType DEF Exit, TypeInv, cacheVars, CacheTypeOK
  <1>9. ASSUME NEW j \in Jobs, TrapBetween(j)
        PROVE  TypeInv'
    <2>1. /\ volumes' \in [Jobs -> {"no", "ready", "cleaned"}]
          /\ signal' \in [Jobs -> {"no", "pending", "handled"}]
      BY <1>9, VolumesSet, SignalSet DEF TrapBetween, Cleanup
    <2> QED BY <1>9, <2>1 DEF TrapBetween, TypeInv, cacheVars, CacheTypeOK, Counted
  <1>10. ASSUME NEW j \in Jobs, TrapInWait(j)
         PROVE  TypeInv'
    <2>1. Counted(j)' /\ \E section, n : Moved(j, section, n)
      BY <1>10, AdvanceCounted DEF TrapInWait
    <2>2. /\ volumes' \in [Jobs -> {"no", "ready", "cleaned"}]
          /\ signal' \in [Jobs -> {"no", "pending", "handled"}]
      BY <1>10, VolumesSet, SignalSet DEF TrapInWait, Cleanup
    <2>3. PICK k \in 1..LO(j) : Mains[j][next[j]] = Order(j)[k] /\ process[j][Order(j)[k]] # "no"
      <3>1. LI(j) + next[j] \in LI(j) + 1..LO(j)
        BY <1>10, PlaceOf, OrderFacts DEF TrapInWait
      <3> QED BY <1>10, <3>1, PlaceOf DEF TrapInWait, Launched
    <2>4. process[j][Order(j)[k]] \in Codes \cup {"running"}
      BY <1>10, <2>3, ContainerFacts DEF TypeInv, OfContainers
    <2>5. \E v \in Codes : code' = [code EXCEPT ![j][Order(j)[k]] = v]
      BY <1>10, <2>3, <2>4 DEF TrapInWait, Codes
    <2>6. OfContainers(code, Codes \cup {NoCode})'
      BY <2>5, CodeTypes
    <2> QED
      BY <1>10, <2>1, <2>2, <2>6, MovedType DEF TrapInWait, TypeInv, cacheVars, CacheTypeOK
  <1>11. ASSUME NEW j \in Jobs, NEW c \in Containers(j), ContainerEnds(j, c)
         PROVE  TypeInv'
    <2>1. OfContainers(process, Codes \cup {"no", "running"})'
      <3>1. PICK k \in 1..LO(j) : c = Order(j)[k]
        BY ContainerFacts
      <3>2. PICK exit \in {"ok", "error"} : process' = [process EXCEPT ![j][c] = exit]
        BY <1>11 DEF ContainerEnds
      <3>3. exit \in Codes \cup {"no", "running"}
        BY DEF Codes
      <3>4. OfContainers(process, Codes \cup {"no", "running"})
        BY DEF TypeInv
      <3> QED BY <3>1, <3>2, <3>3, <3>4, SetOne
    <2> QED BY <1>11, <2>1 DEF ContainerEnds, TypeInv, cacheVars, CacheTypeOK, Counted
  <1>12. ASSUME NEW j \in Jobs, Term(j)
         PROVE  TypeInv'
    <2>1. signal' \in [Jobs -> {"no", "pending", "handled"}]
      BY <1>12, SignalSet DEF Term
    <2> QED BY <1>12, <2>1 DEF Term, TypeInv, cacheVars, CacheTypeOK, Counted
  <1>13. ASSUME NEW j \in Jobs, Kill(j)
         PROVE  TypeInv'
    <2>1. Moved(j, "killed", 1) /\ Counted(j)'
      BY <1>13, GotoMoves DEF Kill, Sections, Moved, Counted
    <2>2. /\ OfContainers(process, Codes \cup {"no", "running"})'
          /\ OfContainers(image, Images)'
          /\ OfContainers(code, Codes \cup {NoCode})'
      BY <1>13 DEF Kill, TypeInv, OfContainers, All, Images
    <2> QED BY <1>13, <2>1, <2>2, MovedType DEF Kill, TypeInv, cacheVars, CacheTypeOK
  <1>14. CASE RemoteChanges /\ UNCHANGED scriptVars
    <2>1. remote' \in Versions
      BY <1>14, CacheAssumption DEF RemoteChanges, TypeInv, CacheTypeOK, Versions
    <2> QED
      BY <1>14, <2>1 DEF RemoteChanges, scriptVars, TypeInv, CacheTypeOK, Counted
  <1>15. CASE UNCHANGED vars
    BY <1>15 DEF vars, scriptVars, cacheVars, TypeInv, CacheTypeOK, Counted
  <1> QED
    BY <1>1, <1>2, <1>3, <1>4, <1>5, <1>6, <1>7, <1>8, <1>9, <1>10, <1>11, <1>12, <1>13,
       <1>14, <1>15
    DEF JobNext, ScriptStep, Ends

------------------------------------------------------------------------------
(* What a script has done *)

\* The return code v that was told of a container is its own, or 143.
Its(j, c, v) ==
    \/ v \in Codes /\ v = process[j][c]
    \/ v = "term" /\ signal[j] = "handled"

\* The first n containers have told their return codes; those after n were not started.
Told(j, n) == \A i \in 1..n : Its(j, Order(j)[i], code[j][Order(j)[i]])
Unstarted(j, n) == \A i \in n + 1..LO(j) : process[j][Order(j)[i]] = "no"
Started(j, n) == \A i \in LI(j) + 1..n : process[j][Order(j)[i]] # "no"

\* What holds of a script in each of its sections.
ScriptInv(j) ==
    /\ at[j] \in {"images", "volumes", "killed"} => Unstarted(j, 0)
    /\ at[j] = "init" => Told(j, next[j] - 1) /\ Unstarted(j, next[j])
    /\ at[j] = "launch" =>
        /\ Told(j, LI(j)) /\ Unstarted(j, LI(j) + next[j] - 1)
        /\ Started(j, LI(j) + next[j] - 1)
    /\ at[j] = "wait" => Told(j, LI(j) + next[j] - 1) /\ Started(j, LO(j))
    /\ at[j] \in {"logs", "exit", "done"} => Told(j, LO(j))
    /\ at[j] \in {"exit", "done"} => tar[j] = code[j]
    /\ at[j] = "done" => volumes[j] = "cleaned"
    /\ at[j] \in {"init", "launch", "wait", "logs", "exit"} /\ signal[j] # "handled" =>
        volumes[j] = "ready"

ScriptsInv == \A j \in Jobs : ScriptInv(j)

LEMMA ScriptsInvInit == JobInit => ScriptsInv
  <1> SUFFICES ASSUME JobInit, NEW j \in Jobs PROVE ScriptInv(j)
    BY DEF ScriptsInv
  <1>1. Unstarted(j, 0)
    BY ContainerFacts DEF JobInit, Unstarted, All
  <1> QED BY <1>1 DEF JobInit, ScriptInv

LEMMA WaitStarted == ScriptsInv => \A j \in Jobs : at[j] = "wait" => Launched(j)
  BY DEF ScriptsInv, ScriptInv, Started, Launched

LEMMA VolumesProperty == ScriptsInv /\ TypeInv => VolumesOutliveContainers
  <1> SUFFICES ASSUME ScriptsInv, TypeInv, NEW j \in Jobs, NEW c \in Containers(j),
                      process[j][c] = "running", signal[j] # "handled"
               PROVE  volumes[j] = "ready"
    BY DEF VolumesOutliveContainers, Running
  <1>1. ScriptInv(j) /\ at[j] \in Sections
    BY DEF ScriptsInv, TypeInv
  <1>2. PICK k \in 1..LO(j) : c = Order(j)[k]
    BY ContainerFacts
  <1>3. at[j] \notin {"images", "volumes", "killed"}
    <2>1. ~Unstarted(j, 0)
      BY <1>2 DEF Unstarted
    <2> QED BY <1>1, <2>1 DEF ScriptInv
  <1>4. at[j] # "done"
    <2>1. ~Told(j, LO(j))
      BY <1>2 DEF Told, Its, Codes
    <2> QED BY <1>1, <2>1 DEF ScriptInv
  <1> QED BY <1>1, <1>3, <1>4 DEF ScriptInv, Sections

LEMMA CodesProperty == ScriptsInv => CodesAreTheirs
  <1> SUFFICES ASSUME ScriptsInv, NEW j \in Jobs, at[j] = "done"
               PROVE  /\ volumes[j] = "cleaned"
                      /\ \A c \in Containers(j) : Its(j, c, tar[j][c])
    BY DEF CodesAreTheirs, Its
  <1>1. ScriptInv(j)
    BY DEF ScriptsInv
  <1>2. Told(j, LO(j)) /\ tar[j] = code[j] /\ volumes[j] = "cleaned"
    BY <1>1 DEF ScriptInv
  <1> QED BY <1>2, ContainerFacts DEF Told

\* A script is not touched by what others do.
LEMMA ScriptSame ==
    ASSUME NEW j \in Jobs, ScriptInv(j),
           at'[j] = at[j] /\ next'[j] = next[j] /\ process'[j] = process[j],
           code'[j] = code[j] /\ volumes'[j] = volumes[j] /\ signal'[j] = signal[j],
           tar'[j] = tar[j]
    PROVE  ScriptInv(j)'
  BY DEF ScriptInv, Told, Unstarted, Started, Its

\* Two scripts share nothing that ScriptInv speaks of.
Alone(j) ==
    \A i \in Jobs : i # j =>
        /\ at'[i] = at[i] /\ next'[i] = next[i] /\ process'[i] = process[i]
        /\ code'[i] = code[i] /\ volumes'[i] = volumes[i] /\ signal'[i] = signal[i]
        /\ tar'[i] = tar[i]

LEMMA OneScript ==
    ASSUME ScriptsInv, NEW j \in Jobs, Alone(j), ScriptInv(j)'
    PROVE  ScriptsInv'
  BY ScriptSame DEF ScriptsInv, Alone

\* Return codes that were told stay told.
LEMMA ToldSame ==
    ASSUME NEW j \in Jobs, NEW n \in Nat, Told(j, n),
           \A i \in 1..n : /\ process'[j][Order(j)[i]] = process[j][Order(j)[i]]
                           /\ code'[j][Order(j)[i]] = code[j][Order(j)[i]],
           signal[j] = "handled" => signal'[j] = "handled"
    PROVE  Told(j, n)'
  BY DEF Told, Its, Order

LEMMA ToldNext ==
    ASSUME NEW j \in Jobs, NEW k \in 1..LO(j), Told(j, k - 1), process' = process,
           \A i \in 1..LO(j) : i # k => code'[j][Order(j)[i]] = code[j][Order(j)[i]],
           Its(j, Order(j)[k], code[j][Order(j)[k]])',
           signal[j] = "handled" => signal'[j] = "handled"
    PROVE  Told(j, k)'
  <1> SUFFICES ASSUME NEW i \in 1..k PROVE Its(j, Order(j)[i], code[j][Order(j)[i]])'
    BY DEF Told, Order
  <1>1. LO(j) \in Nat /\ k \in Nat
    BY OrderFacts
  <1>2. CASE i = k
    BY <1>2
  <1>3. CASE i # k
    <2>1. i \in 1..k - 1 /\ i \in 1..LO(j)
      BY <1>1, <1>3
    <2> QED BY <1>3, <2>1 DEF Told, Its
  <1> QED BY <1>2, <1>3

\* A section that tells return codes has told one more.
LEMMA TellsOne ==
    ASSUME TypeInv, NEW j \in Jobs, NEW k \in 1..LO(j), NEW v \in Codes, Told(j, k - 1),
           code' = [code EXCEPT ![j][Order(j)[k]] = v], process' = process,
           Its(j, Order(j)[k], v)',
           signal[j] = "handled" => signal'[j] = "handled"
    PROVE  Told(j, k)' /\ \A i \in Jobs : i # j => code'[i] = code[i]
  <1>1. OneSet(code', code, j, k, v)
    BY CodeTypes
  <1>2. /\ code'[j][Order(j)[k]] = v
        /\ \A i \in 1..LO(j) : i # k => code'[j][Order(j)[i]] = code[j][Order(j)[i]]
        /\ \A i \in Jobs : i # j => code'[i] = code[i]
    BY <1>1 DEF OneSet
  <1>3. Its(j, Order(j)[k], code[j][Order(j)[k]])'
    BY <1>2 DEF Its, Order
  <1> QED BY <1>2, <1>3, ToldNext

LEMMA ScriptsInvStep ==
    ASSUME TypeInv, ScriptsInv, [JobNext]_vars
    PROVE  ScriptsInv'
  <1>1. ASSUME NEW j \in Jobs, FindImage(j)
        PROVE  ScriptsInv'
    BY <1>1, ScriptSame DEF FindImage, scriptVars, ScriptsInv
  <1>2. ASSUME NEW j \in Jobs, ImageFound(j)
        PROVE  ScriptsInv'
    <2>1. \/ Moved(j, "volumes", 1)
          \/ Moved(j, "images", next[j] + 1)
      BY <1>2, AdvanceMoves DEF ImageFound, Sections
    <2>2. Unstarted(j, 0)'
      BY <1>2 DEF ImageFound, ScriptsInv, ScriptInv, Unstarted
    <2>3. ScriptInv(j)'
      BY <2>1, <2>2 DEF Moved, ScriptInv
    <2> QED BY <1>2, <2>1, <2>3, OneScript DEF ImageFound, Moved, Alone
  <1>3. ASSUME NEW j \in Jobs, PrepareVolumes(j)
        PROVE  ScriptsInv'
    <2>1. \/ LI(j) = 0 /\ Moved(j, "launch", 1)
          \/ Moved(j, "init", 1)
      BY <1>3, GotoMoves DEF PrepareVolumes, Sections, LI
    <2>2. /\ volumes'[j] = "ready"
          /\ \A i \in Jobs : i # j => volumes'[i] = volumes[i]
      BY <1>3, VolumesSet DEF PrepareVolumes, Initialize
    <2>3. Unstarted(j, 0)
      BY <1>3 DEF PrepareVolumes, InSection, ScriptsInv, ScriptInv
    <2>4. Unstarted(j, 0)' /\ Unstarted(j, 1)'
      BY <1>3, <2>3 DEF PrepareVolumes, Unstarted
    <2>5. Told(j, 0)' /\ Started(j, 0)'
      BY OrderFacts DEF Told, Started
    <2>6. ScriptInv(j)'
      BY <2>1, <2>2, <2>4, <2>5 DEF Moved, ScriptInv
    <2> QED BY <1>3, <2>1, <2>2, <2>6, OneScript DEF PrepareVolumes, Moved, Alone
  <1>4. ASSUME NEW j \in Jobs, RunInit(j)
        PROVE  ScriptsInv'
    <2>1. at[j] = "init" /\ next[j] \in 1..LO(j) /\ Run(j, Order(j)[next[j]])
      BY <1>4, PlaceOf DEF RunInit, InSection
    <2>2. /\ \A i \in 1..LO(j) : i # next[j] => process'[j][Order(j)[i]] = process[j][Order(j)[i]]
          /\ \A i \in Jobs : i # j => process'[i] = process[i]
      BY <2>1, RunTypes
    <2>3. Told(j, next[j] - 1) /\ Unstarted(j, next[j])
      BY <2>1 DEF ScriptsInv, ScriptInv
    <2>4. Told(j, next[j] - 1)'
      <3>1. next[j] - 1 \in Nat /\ \A i \in 1..next[j] - 1 : i \in 1..LO(j) /\ i # next[j]
        BY <2>1, OrderFacts
      <3>2. Told(j, next[j] - 1) /\ next' = next /\ code' = code /\ signal' = signal
        BY <1>4, <2>3 DEF RunInit
      <3> QED BY <2>2, <3>1, <3>2, ToldSame DEF Told, Its
    <2>5. Unstarted(j, next[j])'
      <3>1. \A i \in next[j] + 1..LO(j) : i \in 1..LO(j) /\ i # next[j]
        BY <2>1, OrderFacts
      <3> QED BY <1>4, <2>2, <2>3, <3>1 DEF RunInit, Unstarted
    <2>6. ScriptInv(j)'
      BY <1>4, <2>1, <2>4, <2>5 DEF RunInit, ScriptsInv, ScriptInv
    <2> QED BY <1>4, <2>2, <2>6, OneScript DEF RunInit, Alone
  <1>5. ASSUME NEW j \in Jobs, InitReturns(j)
        PROVE  ScriptsInv'
    <2>1. PICK k \in 1..LO(j) :
          /\ at[j] = "init" /\ k \in 1..LI(j) /\ k = next[j]
          /\ process[j][Order(j)[k]] \in Codes
          /\ code' = [code EXCEPT ![j][Order(j)[k]] = process[j][Order(j)[k]]]
      BY <1>5, PlaceOf DEF InitReturns, InSection
    <2>2. Told(j, k - 1) /\ Unstarted(j, k)
      BY <2>1 DEF ScriptsInv, ScriptInv
    <2>3. Told(j, k)' /\ \A i \in Jobs : i # j => code'[i] = code[i]
      <3>1. process' = process /\ signal' = signal
        BY <1>5 DEF InitReturns
      <3>2. PICK v \in Codes : v = process[j][Order(j)[k]]
        BY <2>1
      <3>3. Its(j, Order(j)[k], v)' /\ code' = [code EXCEPT ![j][Order(j)[k]] = v]
        BY <2>1, <3>1, <3>2 DEF Its, Order
      <3> QED BY <2>2, <3>1, <3>3, TellsOne
    <2>4. \/ k = LI(j) /\ Moved(j, "launch", 1)
          \/ Moved(j, "init", k + 1)
      BY <1>5, <2>1, AdvanceMoves DEF InitReturns, Sections, LI
    <2>5. Unstarted(j, k)' /\ Unstarted(j, k + 1)' /\ Started(j, LI(j))'
      <3>1. \A i \in k + 1 + 1..LO(j) : i \in k + 1..LO(j)
        BY <2>1, OrderFacts
      <3>2. LI(j) + 1..LI(j) = {}
        BY OrderFacts
      <3> QED BY <1>5, <2>2, <3>1, <3>2 DEF InitReturns, Unstarted, Started
    <2>6. ScriptInv(j)'
      <3>1. k + 1 - 1 = k /\ LI(j) + 1 - 1 = LI(j)
        BY <2>1, OrderFacts
      <3>2. signal[j] # "handled" => volumes[j] = "ready"
        BY <2>1 DEF ScriptsInv, ScriptInv
      <3>3. signal' = signal /\ volumes' = volumes
        BY <1>5 DEF InitReturns
      <3>4. CASE k = LI(j) /\ Moved(j, "launch", 1)
        BY <2>3, <2>5, <3>1, <3>2, <3>3, <3>4 DEF Moved, ScriptInv
      <3>5. CASE Moved(j, "init", k + 1)
        BY <2>3, <2>5, <3>1, <3>2, <3>3, <3>5 DEF Moved, ScriptInv
      <3> QED BY <2>4, <3>4, <3>5
    <2> QED BY <1>5, <2>3, <2>4, <2>6, OneScript DEF InitReturns, Moved, Alone
  <1>6. ASSUME NEW j \in Jobs, Launch(j)
        PROVE  ScriptsInv'
    <2>1. PICK k \in 1..LO(j) :
          /\ at[j] = "launch" /\ next[j] \in 1..LM(j) /\ k = LI(j) + next[j]
          /\ Run(j, Order(j)[k])
      BY <1>6, PlaceOf DEF Launch, InSection
    <2>2. /\ process'[j][Order(j)[k]] # "no"
          /\ \A i \in 1..LO(j) : i # k => process'[j][Order(j)[i]] = process[j][Order(j)[i]]
          /\ \A i \in Jobs : i # j => process'[i] = process[i]
      BY <2>1, RunTypes
    <2>3. Told(j, LI(j)) /\ Unstarted(j, k - 1) /\ Started(j, k - 1)
      <3>1. k - 1 = LI(j) + next[j] - 1
        BY <2>1, OrderFacts
      <3> QED BY <2>1, <3>1 DEF ScriptsInv, ScriptInv
    <2>4. Told(j, LI(j))'
      <3>1. LI(j) \in Nat /\ \A i \in 1..LI(j) : i \in 1..LO(j) /\ i # k
        BY <2>1, OrderFacts
      <3>2. code' = code /\ signal' = signal
        BY <1>6 DEF Launch
      <3> QED BY <2>2, <2>3, <3>1, <3>2, ToldSame
    <2>5. Unstarted(j, k)'
      <3>1. \A i \in k + 1..LO(j) : i \in k - 1 + 1..LO(j) /\ i \in 1..LO(j) /\ i # k
        BY <2>1, OrderFacts
      <3> QED BY <2>2, <2>3, <3>1 DEF Unstarted
    <2>6. Started(j, k)'
      <3>1. \A i \in LI(j) + 1..k : i = k \/ (i \in LI(j) + 1..k - 1 /\ i \in 1..LO(j) /\ i # k)
        BY <2>1, OrderFacts
      <3> QED BY <2>2, <2>3, <3>1 DEF Started
    <2>7. \/ next[j] = LM(j) /\ Moved(j, "wait", 1)
          \/ Moved(j, "launch", next[j] + 1)
      BY <1>6, <2>1, AdvanceMoves DEF Launch, Sections, LM
    <2>8. ScriptInv(j)'
      <3>1. /\ LI(j) + (next[j] + 1) - 1 = k /\ LI(j) + 1 - 1 = LI(j)
            /\ next[j] = LM(j) => k = LO(j)
        BY <2>1, OrderFacts
      <3>2. signal[j] # "handled" => volumes[j] = "ready"
        BY <2>1 DEF ScriptsInv, ScriptInv
      <3>3. signal' = signal /\ volumes' = volumes
        BY <1>6 DEF Launch
      <3>4. CASE next[j] = LM(j) /\ Moved(j, "wait", 1)
        BY <2>4, <2>6, <3>1, <3>2, <3>3, <3>4 DEF Moved, ScriptInv
      <3>5. CASE Moved(j, "launch", next[j] + 1)
        BY <2>4, <2>5, <2>6, <3>1, <3>2, <3>3, <3>5 DEF Moved, ScriptInv
      <3> QED BY <2>7, <3>4, <3>5
    <2> QED BY <1>6, <2>2, <2>7, <2>8, OneScript DEF Launch, Moved, Alone
  <1>7. ASSUME NEW j \in Jobs, Wait(j) \/ TrapInWait(j)
        PROVE  ScriptsInv'
    <2>1. PICK k \in 1..LO(j) :
          /\ at[j] = "wait" /\ next[j] \in 1..LM(j) /\ k = LI(j) + next[j]
          /\ Mains[j][next[j]] = Order(j)[k] /\ Advance(j, Mains[j], "logs")
          /\ process' = process
      BY <1>7, PlaceOf DEF Wait, TrapInWait, InSection
    <2>2. Told(j, k - 1) /\ Started(j, LO(j))
      <3>1. k - 1 = LI(j) + next[j] - 1
        BY <2>1, OrderFacts
      <3> QED BY <2>1, <3>1 DEF ScriptsInv, ScriptInv
    <2>3. /\ signal[j] = "handled" => signal'[j] = "handled"
          /\ signal'[j] # "handled" => volumes[j] = "ready" /\ volumes'[j] = volumes[j]
          /\ \A i \in Jobs : i # j => signal'[i] = signal[i] /\ volumes'[i] = volumes[i]
      <3>1. CASE Wait(j)
        BY <2>1, <3>1 DEF Wait, ScriptsInv, ScriptInv
      <3>2. CASE TrapInWait(j)
        BY <3>2, VolumesSet, SignalSet DEF TrapInWait, Cleanup
      <3> QED BY <1>7, <3>1, <3>2
    <2>4. PICK v \in Codes : /\ code' = [code EXCEPT ![j][Order(j)[k]] = v]
                             /\ Its(j, Order(j)[k], v)'
      <3>1. CASE Wait(j)
        <4>1. PICK v \in Codes : v = process[j][Order(j)[k]]
          BY <2>1, <3>1 DEF Wait
        <4>2. code' = [code EXCEPT ![j][Order(j)[k]] = v] /\ Its(j, Order(j)[k], v)'
          BY <2>1, <3>1, <4>1 DEF Wait, Its, Order
        <4> QED BY <4>2
      <3>2. CASE TrapInWait(j)
        <4>1. process[j][Order(j)[k]] \in Codes \cup {"running"}
          <5>1. process[j][Order(j)[k]] # "no"
            <6>1. k \in LI(j) + 1..LO(j)
              BY <2>1, OrderFacts
            <6> QED BY <2>2, <6>1 DEF Started
          <5> QED BY <2>1, <5>1, ContainerFacts DEF TypeInv, OfContainers
        <4>2. signal'[j] = "handled"
          BY <3>2, SignalSet DEF TrapInWait
        <4>3. PICK v \in Codes : v = IF process[j][Order(j)[k]] = "running" THEN "term"
                                     ELSE process[j][Order(j)[k]]
          BY <4>1 DEF Codes
        <4>4. code' = [code EXCEPT ![j][Order(j)[k]] = v]
          BY <2>1, <3>2, <4>3 DEF TrapInWait
        <4>5. Its(j, Order(j)[k], v)'
          BY <2>1, <4>2, <4>3 DEF Its, Order
        <4> QED BY <4>4, <4>5
      <3> QED BY <1>7, <3>1, <3>2
    <2>5. Told(j, k)' /\ \A i \in Jobs : i # j => code'[i] = code[i]
      BY <2>1, <2>2, <2>3, <2>4, TellsOne
    <2>6. Started(j, LO(j))'
      BY <2>1, <2>2 DEF Started
    <2>7. \/ next[j] = LM(j) /\ Moved(j, "logs", 1)
          \/ Moved(j, "wait", next[j] + 1)
      BY <2>1, AdvanceMoves DEF Sections, LM
    <2>8. ScriptInv(j)'
      <3>1. /\ LI(j) + (next[j] + 1) - 1 = k
            /\ next[j] = LM(j) => k = LO(j)
        BY <2>1, OrderFacts
      <3>2. CASE next[j] = LM(j) /\ Moved(j, "logs", 1)
        BY <2>3, <2>5, <3>1, <3>2 DEF Moved, ScriptInv
      <3>3. CASE Moved(j, "wait", next[j] + 1)
        BY <2>3, <2>5, <2>6, <3>1, <3>3 DEF Moved, ScriptInv
      <3> QED BY <2>7, <3>2, <3>3
    <2>9. tar' = tar
      BY <1>7 DEF Wait, TrapInWait
    <2> QED BY <2>1, <2>3, <2>5, <2>7, <2>8, <2>9, OneScript DEF Moved, Alone
  <1>8. ASSUME NEW j \in Jobs, Tar(j)
        PROVE  ScriptsInv'
    <2>1. Moved(j, "exit", 1)
      BY <1>8, GotoMoves DEF Tar, Sections
    <2>2. tar'[j] = code[j] /\ \A i \in Jobs : i # j => tar'[i] = tar[i]
      BY <1>8 DEF Tar, TypeInv, OfContainers
    <2>3. Told(j, LO(j))'
      BY <1>8 DEF Tar, InSection, ScriptsInv, ScriptInv, Told, Its
    <2>4. ScriptInv(j)'
      BY <1>8, <2>1, <2>2, <2>3 DEF Tar, InSection, Moved, ScriptsInv, ScriptInv
    <2> QED BY <1>8, <2>1, <2>2, <2>4, OneScript DEF Tar, Moved, Alone
  <1>9. ASSUME NEW j \in Jobs, Exit(j)
        PROVE  ScriptsInv'
    <2>1. Moved(j, "done", 1)
      BY <1>9, GotoMoves DEF Exit, Sections
    <2>2. /\ volumes'[j] = "cleaned"
          /\ \A i \in Jobs : i # j => volumes'[i] = volumes[i]
      BY <1>9, VolumesSet DEF Exit, Cleanup
    <2>3. Told(j, LO(j))' /\ tar'[j] = code'[j]
      BY <1>9 DEF Exit, InSection, ScriptsInv, ScriptInv, Told, Its
    <2>4. ScriptInv(j)'
      BY <2>1, <2>2, <2>3 DEF Moved, ScriptInv
    <2> QED BY <1>9, <2>1, <2>2, <2>4, OneScript DEF Exit, Moved, Alone
  <1>10. ASSUME NEW j \in Jobs, TrapBetween(j) \/ Term(j)
         PROVE  ScriptsInv'
    <2>1. /\ at' = at /\ next' = next /\ process' = process /\ code' = code /\ tar' = tar
          /\ signal[j] # "handled"
      BY <1>10 DEF TrapBetween, Term
    <2>2. /\ at[j] = "done" => volumes'[j] = "cleaned"
          /\ signal'[j] # "handled" => volumes'[j] = volumes[j]
          /\ \A i \in Jobs : i # j => volumes'[i] = volumes[i] /\ signal'[i] = signal[i]
      <3>1. CASE TrapBetween(j)
        BY <3>1, VolumesSet, SignalSet DEF TrapBetween, Cleanup
      <3>2. CASE Term(j)
        BY <3>2, SignalSet DEF Term
      <3> QED BY <1>10, <3>1, <3>2
    <2>3. ScriptInv(j)'
      <3>1. ScriptInv(j)
        BY DEF ScriptsInv
      <3>2. /\ \A n : Told(j, n) => Told(j, n)'
            /\ \A n : Unstarted(j, n) <=> Unstarted(j, n)'
            /\ \A n : Started(j, n) <=> Started(j, n)'
        BY <2>1 DEF Told, Its, Unstarted, Started
      <3> QED BY <2>1, <2>2, <3>1, <3>2 DEF ScriptInv
    <2> QED BY <2>1, <2>2, <2>3, OneScript DEF Alone
  <1>11. ASSUME NEW j \in Jobs, NEW c \in Containers(j), ContainerEnds(j, c)
         PROVE  ScriptsInv'
    <2>1. PICK k \in 1..LO(j) : c = Order(j)[k]
      BY ContainerFacts
    <2>2. /\ process[j][Order(j)[k]] = "running"
          /\ process'[j][Order(j)[k]] # "no"
          /\ \A i \in 1..LO(j) : i # k => process'[j][Order(j)[i]] = process[j][Order(j)[i]]
          /\ \A i \in Jobs : i # j => process'[i] = process[i]
      <3>1. PICK exit \in {"ok", "error"} : process' = [process EXCEPT ![j][Order(j)[k]] = exit]
        BY <1>11, <2>1 DEF ContainerEnds
      <3> DEFINE S == Codes \cup {"no", "running"}
      <3>2. OfContainers(process, S) /\ exit \in S
        BY DEF TypeInv, Codes
      <3> HIDE DEF S
      <3>3. OneSet(process', process, j, k, exit)
        BY <3>1, <3>2, SetOne
      <3> QED BY <1>11, <2>1, <3>3 DEF OneSet, ContainerEnds
    <2>3. /\ at' = at /\ next' = next /\ code' = code /\ tar' = tar
          /\ volumes' = volumes /\ signal' = signal
      BY <1>11 DEF ContainerEnds
    <2>4. ASSUME NEW n \in Nat, n <= LO(j), Told(j, n)
          PROVE  Told(j, n)'
      <3> SUFFICES ASSUME NEW i \in 1..n PROVE Its(j, Order(j)[i], code[j][Order(j)[i]])'
        BY DEF Told, Order
      <3>1. Its(j, Order(j)[i], code[j][Order(j)[i]]) /\ i \in 1..LO(j)
        BY <2>4, OrderFacts DEF Told
      <3>2. CASE i = k
        BY <2>2, <2>3, <3>1, <3>2 DEF Its, Codes
      <3>3. CASE i # k
        BY <2>2, <2>3, <3>1, <3>3 DEF Its
      <3> QED BY <3>2, <3>3
    <2>5. ASSUME NEW n \in Nat, Unstarted(j, n)
          PROVE  Unstarted(j, n)'
      <3>1. \A i \in n + 1..LO(j) : i \in 1..LO(j) /\ i # k
        BY <2>2, <2>5, OrderFacts DEF Unstarted
      <3> QED BY <2>2, <2>5, <3>1 DEF Unstarted
    <2>6. ASSUME NEW n \in Nat, n <= LO(j), Started(j, n)
          PROVE  Started(j, n)'
      <3>1. \A i \in LI(j) + 1..n : i \in 1..LO(j)
        BY <2>6, OrderFacts
      <3> QED BY <2>2, <2>6, <3>1 DEF Started
    <2>7. ScriptInv(j)'
      <3>1. ScriptInv(j) /\ Counted(j)
        BY DEF ScriptsInv, TypeInv
      <3>2. /\ LI(j) \in Nat /\ LI(j) <= LO(j) /\ LO(j) \in Nat /\ LO(j) <= LO(j)
            /\ at[j] = "init" => next[j] \in Nat /\ next[j] - 1 \in Nat /\ next[j] - 1 <= LO(j)
            /\ at[j] \in {"launch", "wait"} =>
                  LI(j) + next[j] - 1 \in Nat /\ LI(j) + next[j] - 1 <= LO(j)
        BY <3>1, OrderFacts DEF Counted
      <3>3. 0 \in Nat
        OBVIOUS
      <3> QED BY <2>3, <2>4, <2>5, <2>6, <3>1, <3>2, <3>3 DEF ScriptInv
    <2> QED BY <2>2, <2>3, <2>7, OneScript DEF Alone
  <1>12. ASSUME NEW j \in Jobs, Kill(j)
         PROVE  ScriptsInv'
    <2>1. Moved(j, "killed", 1)
      BY <1>12, GotoMoves DEF Kill, Sections
    <2>2. /\ process'[j] = All(j, "no")
          /\ \A i \in Jobs : i # j => process'[i] = process[i] /\ code'[i] = code[i]
      BY <1>12, SetAll DEF Kill, TypeInv, OfContainers
    <2>3. Unstarted(j, 0)'
      BY <2>2, ContainerFacts DEF Unstarted, All
    <2>4. ScriptInv(j)'
      BY <2>1, <2>3 DEF Moved, ScriptInv
    <2> QED BY <1>12, <2>1, <2>2, <2>4, OneScript DEF Kill, Moved, Alone
  <1>13. CASE UNCHANGED scriptVars
    BY <1>13, ScriptSame DEF scriptVars, ScriptsInv
  <1> QED
    BY <1>1, <1>2, <1>3, <1>4, <1>5, <1>6, <1>7, <1>8, <1>9, <1>10, <1>11, <1>12, <1>13
    DEF JobNext, ScriptStep, Ends, vars

------------------------------------------------------------------------------
(* Theorems *)

LEMMA ScriptsCorrect == JobSpec => [](TypeInv /\ ScriptsInv)
  <1>1. JobInit => TypeInv /\ ScriptsInv
    BY TypeInvInit, ScriptsInvInit
  <1>2. TypeInv /\ ScriptsInv /\ [JobNext]_vars => (TypeInv /\ ScriptsInv)'
    BY WaitStarted, TypeInvStep, ScriptsInvStep
  <1> QED BY <1>1, <1>2, PTL DEF JobSpec

\* A script is always in one of its sections, at one of the containers of that
\* section, and its files hold return codes: the loops that build_environment_files,
\* exec_init_containers and exec_containers unroll never point past their lists.
THEOREM JobTypeCorrect == JobSpec => []JobTypeOK
  BY ScriptsCorrect, TypeInvType, PTL

\* Unless SIGTERM came, the volumes are there as long as a container of the pod
\* runs, however many containers the pod has and whatever other scripts do to the
\* cached image.
THEOREM VolumesOutliveContainersCorrect == JobSpec => []VolumesOutliveContainers
  BY ScriptsCorrect, VolumesProperty, PTL

\* A script that came to its end has cleaned up, and its tar file has the return
\* code of every container of the pod, or 143 if SIGTERM interrupted its wait.
THEOREM CodesAreTheirsCorrect == JobSpec => []CodesAreTheirs
  BY ScriptsCorrect, CodesProperty, PTL
==============================================================================
