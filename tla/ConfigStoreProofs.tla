--------------------------- MODULE ConfigStoreProofs ---------------------------
(***************************************************************************)
(* Proofs about ConfigStore, for every number of slots and every set of    *)
(* names and keys: the store stays well-formed (so no task indexes past    *)
(* the array), flash always holds a blob the next boot accepts as is, and  *)
(* the array with its index implements the list of ProfileList.            *)
(***************************************************************************)
EXTENDS ConfigStore, TLAPS, WellFoundedInduction, SequenceTheorems

\* A non-empty set of array indices has a least element: what the search loop of config_find_profile finds.
LEMMA LeastIndex ==
  ASSUME NEW S \in SUBSET Nat, S # {}
  PROVE  \E i \in S : \A j \in S : i <= j
<1>1. \E x \in S : \A y \in S : ~ (<<y, x>> \in OpToRel(<, Nat))
  BY NatLessThanWellFounded, WFMin
<1>2. PICK x \in S : \A y \in S : ~ (<<y, x>> \in OpToRel(<, Nat))
  BY <1>1
<1>3. ASSUME NEW y \in S PROVE x <= y
  <2>1. <<y, x>> \notin {ss \in Nat \X Nat : ss[1] < ss[2]}
    BY <1>2 DEF OpToRel
  <2> QED BY <2>1
<1> QED BY <1>3

\* config_find_profile returns -1 or a used slot holding the name it was asked for.
LEMMA FindProfileRange ==
  ASSUME NEW c \in Configs, NEW s, ProfileMax \in 1..254
  PROVE  \/ FindProfile(c, s) = -1
         \/ FindProfile(c, s) \in Used(c) /\ c.profiles[FindProfile(c, s)].ssid = s
<1>1. CASE Matches(c, s) = {}
  BY <1>1 DEF FindProfile
<1>2. CASE Matches(c, s) # {}
  <2>1. Matches(c, s) \in SUBSET Nat
    BY DEF Matches, Used, Configs
  <2>2. \E i \in Matches(c, s) : \A j \in Matches(c, s) : i <= j
    BY <1>2, <2>1, LeastIndex
  <2>3. FindProfile(c, s) \in Matches(c, s)
    BY <1>2, <2>2 DEF FindProfile
  <2> QED BY <2>3 DEF Matches
<1> QED BY <1>1, <1>2

----------------------------------------------------------------------------
(* What each operation of config_store.c makes of a well-formed configuration. *)

Good(c) == c \in Configs /\ WellFormed(c)

LEMMA MaxFits == ProfileMax \in Nat /\ ProfileMax >= 1 /\ ProfileMax < ActiveNone
  BY StoreAssumption DEF ActiveNone

\* The wiped configuration and the compile-time one are well-formed.
LEMMA DefaultsGood == Good(ClearWifi) /\ Good(Defaults)
<1>1. Good(ClearWifi)
  BY MaxFits DEF Good, ClearWifi, Configs, WellFormed, ActiveInRange, NothingBeyondCount,
                 Slots, Profiles, ZeroProfile, Ssids, Passes, ActiveNone
<1>2. Good(Defaults)
  BY <1>1, MaxFits, StoreAssumption
     DEF Defaults, ClearWifi, Good, Configs, WellFormed, ActiveInRange, NothingBeyondCount,
         Slots, Profiles, ZeroProfile, Ssids, Passes, ActiveNone
<1> QED BY <1>1, <1>2

\* config_load leaves a well-formed blob alone, and never returns an ill-formed configuration for one.
LEMMA LoadGood ==
  ASSUME NEW b \in Configs \cup {NoBlob, BadBlob},
         b \notin {NoBlob, BadBlob} => WellFormed(b)
  PROVE  /\ Good(Load(b))
         /\ b \notin {NoBlob, BadBlob} => Load(b) = b
<1>1. CASE b \in {NoBlob, BadBlob}
  BY <1>1, DefaultsGood DEF Load
<1>2. CASE b \notin {NoBlob, BadBlob}
  <2>1. Load(b) = b
    BY <1>2, MaxFits DEF Load, FixActive, WellFormed, ActiveInRange, Configs, ActiveNone
  <2> QED BY <1>2, <2>1 DEF Good
<1> QED BY <1>1, <1>2

\* config_add_profile keeps the store well-formed, and an index it returns is a used slot of the result.
LEMMA AddProfileGood ==
  ASSUME NEW c, Good(c), NEW s \in Ssids
  PROVE  /\ Good(AddProfile(c, s))
         /\ AddIndex(c, s) >= 0 => AddIndex(c, s) \in 0..(AddProfile(c, s).count - 1)
<1> USE MaxFits DEF ActiveNone
<1>1. c \in Configs /\ WellFormed(c)
  BY DEF Good
<1>2. FindProfile(c, s) = -1 \/ FindProfile(c, s) \in Used(c)
  BY <1>1, FindProfileRange
<1>3. CASE FindProfile(c, s) \in Used(c)
  BY <1>1, <1>3 DEF AddProfile, AddIndex, Used, Configs, Good
<1>4. CASE FindProfile(c, s) = -1 /\ c.count >= ProfileMax
  BY <1>1, <1>4 DEF AddProfile, AddIndex, Configs, Good
<1>5. CASE FindProfile(c, s) = -1 /\ ~(c.count >= ProfileMax)
  <2> DEFINE d == AddProfile(c, s)
  <2>1. d = [count |-> c.count + 1,
             active |-> IF c.active = 255 THEN c.count ELSE c.active,
             profiles |-> [c.profiles EXCEPT ![c.count] = [ssid |-> s, pass |-> Blank]]]
    BY <1>5 DEF AddProfile
  <2>2. c.count \in 0..(ProfileMax - 1) /\ c.active \in 0..255 /\ c.profiles \in [Slots -> Profiles]
    BY <1>1, <1>5 DEF Configs
  <2>3. d \in Configs
    <3> DEFINE q == [c.profiles EXCEPT ![c.count] = [ssid |-> s, pass |-> Blank]]
               a == IF c.active = 255 THEN c.count ELSE c.active
    <3>1. q \in [Slots -> Profiles]
      BY <2>2 DEF Slots, Profiles, Passes
    <3>2. a \in 0..255 /\ c.count + 1 \in 0..ProfileMax
      BY <2>2
    <3>3. d = [count |-> c.count + 1, active |-> a, profiles |-> q]
      BY <2>1
    <3> HIDE DEF q, a, d
    <3> QED BY <3>1, <3>2, <3>3 DEF Configs
  <2>4. ActiveInRange(d)
    BY <1>1, <2>1, <2>2 DEF WellFormed, ActiveInRange
  <2>5. NothingBeyondCount(d)
    BY <1>1, <2>1, <2>2 DEF WellFormed, NothingBeyondCount, Slots
  <2>6. AddIndex(c, s) = c.count
    BY <1>5 DEF AddIndex
  <2> HIDE DEF d
  <2>7. d.count = c.count + 1
    BY <2>1
  <2> QED BY <2>2, <2>3, <2>4, <2>5, <2>6, <2>7 DEF d, Good, WellFormed
<1> QED BY <1>1, <1>2, <1>3, <1>4, <1>5

\* config_del_profile keeps the store well-formed, whichever index the console passes.
LEMMA DelProfileGood ==
  ASSUME NEW c, Good(c), NEW n \in Int
  PROVE  Good(DelProfile(c, n))
<1> USE MaxFits DEF ActiveNone
<1>1. /\ c.count \in 0..ProfileMax
      /\ c.active \in 0..255
      /\ c.profiles \in [Slots -> Profiles]
      /\ WellFormed(c)
  BY DEF Good, Configs
<1>2. CASE n < 0 \/ n >= c.count
  BY <1>2 DEF DelProfile
<1>3. CASE ~(n < 0 \/ n >= c.count)
  <2> DEFINE p == [i \in Slots |-> IF i = c.count - 1 THEN ZeroProfile
                                   ELSE IF i \in n..(c.count - 2) THEN c.profiles[i + 1]
                                   ELSE c.profiles[i]]
  <2> DEFINE d == DelProfile(c, n)
  <2>1. d = [count |-> c.count - 1, active |-> DelActive(c, n), profiles |-> p]
    BY <1>3 DEF DelProfile
  <2>2. p \in [Slots -> Profiles]
    BY <1>1 DEF Slots, Profiles, ZeroProfile, Ssids, Passes
  <2>3. /\ DelActive(c, n) \in 0..255
        /\ c.count = 1 => DelActive(c, n) = 255
        /\ c.count > 1 => DelActive(c, n) < c.count - 1
    BY <1>1, <1>3 DEF DelActive, WellFormed, ActiveInRange
  <2>4. \A i \in Slots : i >= c.count - 1 => p[i] = ZeroProfile
    BY <1>1, <1>3 DEF WellFormed, NothingBeyondCount, Slots
  <2> HIDE DEF p
  <2>5. d \in Configs
    BY <1>1, <1>3, <2>1, <2>2, <2>3 DEF Configs
  <2>6. ActiveInRange(d) /\ NothingBeyondCount(d)
    BY <1>1, <1>3, <2>1, <2>3, <2>4 DEF ActiveInRange, NothingBeyondCount
  <2> QED BY <2>5, <2>6 DEF Good, WellFormed
<1> QED BY <1>1, <1>2, <1>3

\* Rewriting one used slot and choosing a used slot keep the store well-formed.
LEMMA WriteGood ==
  ASSUME NEW c, Good(c), NEW q, q \in [Slots -> Profiles],
         \A j \in Slots : j >= c.count => q[j] = c.profiles[j],
         NEW a, a = c.active \/ a \in 0..(c.count - 1)
  PROVE  Good([count |-> c.count, active |-> a, profiles |-> q])
<1> DEFINE d == [count |-> c.count, active |-> a, profiles |-> q]
<1>1. /\ c.count \in 0..ProfileMax /\ ProfileMax \in 1..254
      /\ c.active \in 0..255
      /\ ActiveInRange(c) /\ NothingBeyondCount(c)
  BY MaxFits DEF Good, Configs, WellFormed, ActiveNone
<1>2. a \in 0..255
  BY <1>1
<1>3. d \in Configs
  BY <1>1, <1>2 DEF Configs, ActiveNone
<1>4. d.count = c.count /\ d.active = a /\ d.profiles = q
  OBVIOUS
<1> HIDE DEF d
<1>5. ActiveInRange(d)
  BY <1>1, <1>4 DEF ActiveInRange, ActiveNone
<1>6. NothingBeyondCount(d)
  BY <1>1, <1>4 DEF NothingBeyondCount
<1> QED BY <1>3, <1>5, <1>6 DEF Good, WellFormed, d

\* The same for the ways the commands write: the selection, a name, a passphrase, and staging.
LEMMA EditGood ==
  ASSUME NEW c, Good(c), NEW i \in 0..(c.count - 1)
  PROVE  /\ Good([c EXCEPT !.active = i])
         /\ \A s \in Ssids : Good([c EXCEPT !.profiles[i].ssid = s])
         /\ \A p \in Passes : Good([c EXCEPT !.profiles[i].pass = p])
<1>1. /\ c = [count |-> c.count, active |-> c.active, profiles |-> c.profiles]
      /\ c.profiles \in [Slots -> Profiles]
      /\ c.count \in 0..ProfileMax
      /\ i \in Slots /\ i < c.count
  BY MaxFits DEF Good, Configs, Slots
<1>2. Good([c EXCEPT !.active = i])
  <2>1. [c EXCEPT !.active = i] = [count |-> c.count, active |-> i, profiles |-> c.profiles]
    BY <1>1
  <2> QED BY <1>1, <2>1, WriteGood
<1>3. ASSUME NEW s \in Ssids PROVE Good([c EXCEPT !.profiles[i].ssid = s])
  <2> DEFINE q == [c.profiles EXCEPT ![i].ssid = s]
  <2>1. [c EXCEPT !.profiles[i].ssid = s]
          = [count |-> c.count, active |-> c.active, profiles |-> q]
    BY <1>1
  <2>2. q \in [Slots -> Profiles]
    BY <1>1 DEF Profiles
  <2>3. \A j \in Slots : j >= c.count => q[j] = c.profiles[j]
    BY <1>1 DEF Slots
  <2> HIDE DEF q
  <2>4. Good([count |-> c.count, active |-> c.active, profiles |-> q])
    BY <2>2, <2>3, WriteGood
  <2> QED BY <2>1, <2>4
<1>4. ASSUME NEW p \in Passes PROVE Good([c EXCEPT !.profiles[i].pass = p])
  <2> DEFINE q == [c.profiles EXCEPT ![i].pass = p]
  <2>1. [c EXCEPT !.profiles[i].pass = p]
          = [count |-> c.count, active |-> c.active, profiles |-> q]
    BY <1>1
  <2>2. q \in [Slots -> Profiles]
    BY <1>1 DEF Profiles
  <2>3. \A j \in Slots : j >= c.count => q[j] = c.profiles[j]
    BY <1>1 DEF Slots
  <2> HIDE DEF q
  <2>4. Good([count |-> c.count, active |-> c.active, profiles |-> q])
    BY <2>2, <2>3, WriteGood
  <2> QED BY <2>1, <2>4
<1> QED BY <1>2, <1>3, <1>4

LEMMA StageGood ==
  ASSUME NEW c, Good(c), NEW i \in 0..(c.count - 1), NEW p \in Passes
  PROVE  Good(Stage(c, i, p))
<1> DEFINE d == [c EXCEPT !.active = i]
<1>1. Good(d)
  BY EditGood
<1>2. d.count = c.count
  BY DEF Good, Configs
<1> HIDE DEF d
<1>3. Good([d EXCEPT !.profiles[i].pass = p])
  BY <1>1, <1>2, EditGood
<1> QED BY <1>3 DEF Stage, d

\* After ensure_active_profile the console may write through the active index.
LEMMA EnsureGood ==
  ASSUME NEW c, Good(c)
  PROVE  LET d == EnsureActiveProfile(c)
         IN  Good(d) /\ d.active \in 0..(d.count - 1)
<1> USE MaxFits DEF ActiveNone
<1>1. /\ c.count \in 0..ProfileMax
      /\ c.active \in 0..255
      /\ ActiveInRange(c)
  BY DEF Good, Configs, WellFormed
<1>2. CASE c.active # 255
  BY <1>1, <1>2 DEF EnsureActiveProfile, ActiveInRange
<1>3. CASE c.active = 255
  <2>1. c.count = 0
    BY <1>1, <1>3 DEF ActiveInRange
  <2>2. Blank \in Ssids
    BY DEF Ssids
  <2>3. Good(AddProfile(c, Blank))
    BY <2>2, AddProfileGood
  <2>4. AddProfile(c, Blank).count = 1
    <3>1. Matches(c, Blank) = {}
      BY <2>1 DEF Matches, Used
    <3>2. FindProfile(c, Blank) = -1
      BY <3>1 DEF FindProfile
    <3> QED BY <2>1, <3>2 DEF AddProfile
  <2>5. EnsureActiveProfile(c) = [AddProfile(c, Blank) EXCEPT !.active = 0]
    BY <1>3, <2>1 DEF EnsureActiveProfile
  <2>6. Good([AddProfile(c, Blank) EXCEPT !.active = 0])
    <3> DEFINE d == AddProfile(c, Blank)
    <3>1. 0 \in 0..(d.count - 1) /\ Good(d)
      BY <2>3, <2>4
    <3> HIDE DEF d
    <3>2. Good([d EXCEPT !.active = 0])
      BY <3>1, EditGood
    <3> QED BY <3>2 DEF d
  <2>7. AddProfile(c, Blank) \in Configs
    BY <2>3 DEF Good
  <2> QED BY <2>4, <2>5, <2>6, <2>7 DEF Configs
<1> QED BY <1>1, <1>2, <1>3

----------------------------------------------------------------------------
(* The store. *)

IndInv == TypeOK /\ StoreWellFormed

\* The boot configuration is well-formed.
LEMMA InitInv == Init => IndInv
  BY LoadGood DEF Init, IndInv, TypeOK, StoreWellFormed, Good

\* A save leaves flash with what it had or with the configuration it was given.
LEMMA SaveGood ==
  ASSUME IndInv, NEW c, Good(c), Save(c)
  PROVE  /\ nvs' \in Configs \cup {NoBlob, BadBlob}
         /\ nvs' \notin {NoBlob, BadBlob} => WellFormed(nvs')
  BY DEF IndInv, TypeOK, StoreWellFormed, Good, Save

\* Every command preserves the invariant: one step per action of Next.
LEMMA StepInv == IndInv /\ [Next]_vars => IndInv'
<1> SUFFICES ASSUME IndInv, [Next]_vars
             PROVE  IndInv'
  OBVIOUS
<1> DEFINE CfgGood == Good(cfg')
           FlashGood == /\ nvs' \in Configs \cup {NoBlob, BadBlob}
                        /\ nvs' \notin {NoBlob, BadBlob} => WellFormed(nvs')
<1>1. Good(cfg)
  BY DEF IndInv, TypeOK, StoreWellFormed, Good
<1>2. UNCHANGED nvs => FlashGood
  BY DEF IndInv, TypeOK, StoreWellFormed
<1>3. CfgGood /\ FlashGood => IndInv'
  BY DEF IndInv, TypeOK, StoreWellFormed, Good, WellFormed, ActiveInRange, NothingBeyondCount
<1> HIDE DEF FlashGood
<1>4. ASSUME NEW s \in Ssids, SetSsid(s) PROVE IndInv'
  <2> DEFINE d == EnsureActiveProfile(cfg)
  <2>1. Good(d) /\ d.active \in 0..(d.count - 1)
    BY <1>1, EnsureGood
  <2>2. cfg' = [d EXCEPT !.profiles[d.active].ssid = s] /\ UNCHANGED nvs
    BY <1>4 DEF SetSsid
  <2> HIDE DEF d
  <2> QED BY <1>2, <1>3, <2>1, <2>2, EditGood
<1>5. ASSUME NEW p \in Passes, SetPass(p) PROVE IndInv'
  <2> DEFINE d == EnsureActiveProfile(cfg)
  <2>1. Good(d) /\ d.active \in 0..(d.count - 1)
    BY <1>1, EnsureGood
  <2>2. cfg' = [d EXCEPT !.profiles[d.active].pass = p] /\ UNCHANGED nvs
    BY <1>5 DEF SetPass
  <2> HIDE DEF d
  <2> QED BY <1>2, <1>3, <2>1, <2>2, EditGood
<1>6. ASSUME NEW s \in Ssids, NEW p \in Passes, AddIndex(cfg, s) >= 0,
             cfg' = Stage(AddProfile(cfg, s), AddIndex(cfg, s), p)
      PROVE  CfgGood
  <2> DEFINE d == AddProfile(cfg, s)
             i == AddIndex(cfg, s)
  <2>1. Good(d) /\ i \in 0..(d.count - 1)
    BY <1>1, <1>6, AddProfileGood
  <2>2. cfg' = Stage(d, i, p)
    BY <1>6
  <2> HIDE DEF d, i
  <2> QED BY <2>1, <2>2, StageGood
<1>7. ASSUME NEW s \in Ssids, Join(s) PROVE IndInv'
  <2>1. Blank \in Passes
    BY DEF Passes
  <2> QED BY <1>2, <1>3, <1>6, <1>7, <2>1 DEF Join
<1>8. ASSUME NEW n \in 1..ProfileMax, Use(n) PROVE IndInv'
  <2>1. n - 1 \in 0..(cfg.count - 1)
    BY <1>1, <1>8, MaxFits DEF Use, Good, Configs
  <2>2. Good([cfg EXCEPT !.active = n - 1])
    BY <1>1, <2>1, EditGood
  <2> QED BY <1>2, <1>3, <1>8, <2>2 DEF Use
<1>9. ASSUME NEW n \in 1..ProfileMax, Del(n) PROVE IndInv'
  <2>1. n - 1 \in Int
    BY MaxFits
  <2> QED BY <1>1, <1>2, <1>3, <1>9, <2>1, DelProfileGood DEF Del
<1>10. CASE SaveCmd
  BY <1>1, <1>3, <1>10, SaveGood DEF SaveCmd, FlashGood
<1>11. ASSUME NEW s \in Names, NEW p \in Passes, PortalSuccess(s, p) PROVE IndInv'
  <2>1. CfgGood /\ Save(cfg')
    BY <1>6, <1>11 DEF PortalSuccess, Ssids
  <2> QED BY <1>3, <2>1, SaveGood DEF FlashGood
<1>12. CASE ClearWifiAndReprovision
  <2>1. CfgGood /\ Save(cfg')
    BY <1>12, DefaultsGood DEF ClearWifiAndReprovision
  <2> QED BY <1>3, <2>1, SaveGood DEF FlashGood
<1>13. CASE Boot
  BY <1>2, <1>3, <1>13, LoadGood DEF Boot, IndInv, TypeOK, StoreWellFormed
<1>15. CASE BootErased
  <2>1. cfg' = Defaults /\ nvs' = NoBlob
    BY <1>15 DEF BootErased, Load
  <2> QED BY <2>1, DefaultsGood DEF Good, IndInv, TypeOK, StoreWellFormed
<1>14. CASE UNCHANGED vars
  BY <1>1, <1>2, <1>3, <1>14 DEF vars
<1> QED BY <1>4, <1>5, <1>7, <1>8, <1>9, <1>10, <1>11, <1>12, <1>13, <1>14, <1>15 DEF Next

\* The configuration and the blob always have the types of config_store.h.
THEOREM TypeCorrect == Spec => []TypeOK
<1>1. IndInv => TypeOK
  BY DEF IndInv
<1> QED BY InitInv, StepInv, <1>1, PTL DEF Spec

\* No interleaving of commands, failed saves and restarts leaves an active index out of range, in RAM
\* or in flash, or keeps a deleted profile in a slot beyond the count.
THEOREM AlwaysWellFormed == Spec => []StoreWellFormed
<1>1. IndInv => StoreWellFormed
  BY DEF IndInv
<1> QED BY InitInv, StepInv, <1>1, PTL DEF Spec

\* config_load returns every blob config_save wrote exactly as it was written.
THEOREM SavedAlwaysLoads == Spec => []SavedIsLoadable
<1>1. IndInv => SavedIsLoadable
  BY LoadGood DEF IndInv, TypeOK, StoreWellFormed, SavedIsLoadable
<1> QED BY InitInv, StepInv, <1>1, PTL DEF Spec

\* The network a success stages, or a join, is the one that is active afterwards.
LEMMA StagedIsActive ==
    ASSUME NEW c, Good(c), NEW s \in Ssids, AddIndex(c, s) >= 0, NEW p
    PROVE  ActiveSsid(Stage(AddProfile(c, s), AddIndex(c, s), p)) = s
<1> USE MaxFits DEF ActiveNone
<1>1. PICK a : a = AddProfile(c, s)
  OBVIOUS
<1>2. PICK k : k = AddIndex(c, s)
  OBVIOUS
<1>3. /\ c.count \in Nat /\ c.count <= ProfileMax /\ c.profiles \in [Slots -> Profiles]
      /\ Good(a) /\ k \in 0..(a.count - 1)
  BY <1>1, <1>2, AddProfileGood DEF Good, Configs
<1>4. /\ a.count \in Nat /\ a.count <= ProfileMax /\ a.profiles \in [Slots -> Profiles]
      /\ a = [count |-> a.count, active |-> a.active, profiles |-> a.profiles]
  BY <1>3 DEF Good, Configs
<1>5. a.profiles[k].ssid = s
  <2>1. CASE FindProfile(c, s) >= 0
    <3>1. FindProfile(c, s) \in Used(c) /\ c.profiles[FindProfile(c, s)].ssid = s
      BY <2>1, FindProfileRange DEF Good
    <3> QED BY <1>1, <1>2, <2>1, <3>1 DEF AddProfile, AddIndex
  <2>2. CASE ~(FindProfile(c, s) >= 0)
    <3>1. k = c.count /\ ~(c.count >= ProfileMax)
      BY <1>2, <2>2, <1>3 DEF AddIndex
    <3>2. a.profiles = [c.profiles EXCEPT ![c.count] = [ssid |-> s, pass |-> Blank]]
      BY <1>1, <2>2, <3>1 DEF AddProfile
    <3>3. c.count \in Slots
      BY <1>3, <3>1 DEF Slots
    <3> QED BY <1>3, <3>1, <3>2, <3>3
  <2> QED BY <2>1, <2>2
<1>6. PICK d : d = Stage(a, k, p)
  OBVIOUS
<1>7. k \in Slots
  BY <1>3, <1>4 DEF Slots
<1>8. d.active = k /\ d.count = a.count /\ d.profiles = [a.profiles EXCEPT ![k].pass = p]
  BY <1>4, <1>6 DEF Stage
<1>9. d.profiles[k].ssid = s
  BY <1>4, <1>5, <1>7, <1>8 DEF Profiles
<1>10. HasActive(d)
  BY <1>3, <1>4, <1>8 DEF HasActive
<1> QED BY <1>1, <1>2, <1>6, <1>8, <1>9, <1>10 DEF ActiveSsid

\* The entries named s after s was staged: the ones there were, or the one just added.
LEMMA JoinMatches ==
    ASSUME NEW c, Good(c), NEW s \in Ssids, AddIndex(c, s) >= 0,
           NEW d, d = Stage(AddProfile(c, s), AddIndex(c, s), Blank)
    PROVE  \A i, j \in Matches(d, s) : i = j \/ {i, j} \subseteq Matches(c, s)
<1> DEFINE k == AddIndex(c, s)
           a == AddProfile(c, s)
<1>1. /\ c.count \in Nat /\ c.count <= ProfileMax /\ c.profiles \in [Slots -> Profiles]
      /\ Good(a) /\ k \in 0..(a.count - 1)
  BY MaxFits, AddProfileGood DEF Good, Configs
<1>2. /\ a.count \in Nat /\ a.count <= ProfileMax /\ a.profiles \in [Slots -> Profiles]
      /\ a = [count |-> a.count, active |-> a.active, profiles |-> a.profiles]
  BY <1>1, MaxFits DEF Good, Configs
<1>3. k \in Slots
  BY <1>1, <1>2, MaxFits DEF Slots
<1> HIDE DEF a, k
<1>4. d.count = a.count /\ d.profiles = [a.profiles EXCEPT ![k].pass = Blank]
  BY <1>2 DEF Stage, a, k
<1>5. \A i \in Slots : d.profiles[i].ssid = a.profiles[i].ssid
  BY <1>2, <1>3, <1>4 DEF Profiles
<1>6. Used(a) \subseteq Slots
  BY <1>2, MaxFits DEF Used, Slots
<1>7. Matches(d, s) = Matches(a, s)
  BY <1>4, <1>5, <1>6 DEF Matches, Used
<1>8. CASE FindProfile(c, s) >= 0
  BY <1>7, <1>8 DEF AddProfile, a
<1>9. CASE ~(FindProfile(c, s) >= 0)
  <2>1. Matches(c, s) = {}
    <3> SUFFICES ASSUME Matches(c, s) # {} PROVE FALSE
      OBVIOUS
    <3>1. Matches(c, s) \in SUBSET Nat
      BY <1>1 DEF Matches, Used
    <3>2. \E i \in Matches(c, s) : \A j \in Matches(c, s) : i <= j
      BY <3>1, LeastIndex
    <3>3. FindProfile(c, s) \in Matches(c, s)
      BY <3>2 DEF FindProfile
    <3> QED BY <1>9, <3>1, <3>3
  <2>2. c.count < ProfileMax
    BY <1>1, <1>9, MaxFits DEF AddIndex
  <2>3. a.count = c.count + 1
        /\ a.profiles = [c.profiles EXCEPT ![c.count] = [ssid |-> s, pass |-> Blank]]
    BY <1>1, <1>9, <2>2, MaxFits DEF AddProfile, a
  <2>4. \A i \in Matches(a, s) : i = c.count
    <3> SUFFICES ASSUME NEW i \in 0..c.count, a.profiles[i].ssid = s, i # c.count
                 PROVE  FALSE
      BY <1>1, <2>3 DEF Matches, Used
    <3>1. i \in 0..(c.count - 1) /\ i \in Slots
      BY <1>1, MaxFits DEF Slots
    <3>2. a.profiles[i] = c.profiles[i]
      BY <1>1, <2>3, <3>1
    <3> QED BY <2>1, <3>1, <3>2 DEF Matches, Used
  <2> QED BY <1>7, <2>4
<1> QED BY <1>8, <1>9

\* Staging a network with `join` never gives it a second profile (config_add_profile looks it up first),
\* whatever duplicates renaming has left.
THEOREM JoinsNeverDuplicate == Spec => JoinAddsNoDuplicate
<1>1. IndInv /\ [Next]_vars =>
        [\A s \in Ssids : Join(s) =>
           \A i, j \in Matches(cfg', s) : i = j \/ {i, j} \subseteq Matches(cfg, s)]_vars
  BY JoinMatches DEF IndInv, TypeOK, StoreWellFormed, Good, Join
<1> QED BY InitInv, StepInv, <1>1, PTL DEF Spec, JoinAddsNoDuplicate

----------------------------------------------------------------------------
(* ConfigStore implements ProfileList: ListOf and SelOf are the refinement
   mapping. *)

\* The used slots as a sequence.
LEMMA ListFacts ==
    ASSUME NEW c, Good(c)
    PROVE  /\ c.count \in Nat /\ c.count <= ProfileMax
           /\ ListOf(c) \in Seq(Profiles) /\ Len(ListOf(c)) = c.count
           /\ \A i \in 1..c.count : ListOf(c)[i] = c.profiles[i - 1]
<1> USE MaxFits
<1>1. c.count \in Nat /\ c.count <= ProfileMax /\ c.profiles \in [Slots -> Profiles]
  BY DEF Good, Configs
<1>2. \A i \in 1..c.count : c.profiles[i - 1] \in Profiles
  BY <1>1 DEF Slots
<1>3. ListOf(c) \in [1..c.count -> Profiles]
  BY <1>2 DEF ListOf
<1>4. ListOf(c) \in Seq(Profiles)
  BY <1>1, <1>3, SeqDef
<1>5. Len(ListOf(c)) = c.count
  BY <1>1, <1>3, <1>4, LenProperties
<1> QED BY <1>1, <1>4, <1>5 DEF ListOf

\* The index as a position: 0 for 0xFF.
LEMMA SelFacts ==
    ASSUME NEW c, Good(c)
    PROVE  IF c.count = 0 THEN SelOf(c) = 0 /\ c.active = ActiveNone
           ELSE SelOf(c) = c.active + 1 /\ SelOf(c) \in 1..c.count /\ c.active \in 0..(c.count - 1)
<1>1. c.count \in 0..ProfileMax /\ c.active \in 0..ActiveNone
  BY DEF Good, Configs
<1> QED BY <1>1, MaxFits DEF Good, WellFormed, ActiveInRange, SelOf, ActiveNone

\* Writing a used slot rewrites the entry of the list.
LEMMA WriteRefines ==
    ASSUME NEW c, Good(c), NEW d, Good(d), NEW k \in 0..(c.count - 1), NEW e \in Profiles,
           d.count = c.count, d.profiles = [c.profiles EXCEPT ![k] = e]
    PROVE  ListOf(d) = [ListOf(c) EXCEPT ![k + 1] = e]
<1> DEFINE l == [ListOf(c) EXCEPT ![k + 1] = e]
<1>1. k + 1 \in 1..Len(ListOf(c)) /\ k \in Nat
  BY ListFacts
<1>2. /\ l \in Seq(Profiles) /\ Len(l) = c.count
      /\ \A j \in 1..c.count : l[j] = IF j = k + 1 THEN e ELSE c.profiles[j - 1]
  BY <1>1, ListFacts, ExceptSeq
<1>3. \A j \in 1..c.count : ListOf(d)[j] = IF j = k + 1 THEN e ELSE c.profiles[j - 1]
  <2> SUFFICES ASSUME NEW j \in 1..c.count
               PROVE  d.profiles[j - 1] = IF j = k + 1 THEN e ELSE c.profiles[j - 1]
    BY ListFacts
  <2>1. c.profiles \in [Slots -> Profiles] /\ j - 1 \in Slots
    BY ListFacts, MaxFits DEF Good, Configs, Slots
  <2> QED BY <1>1, <2>1
<1> HIDE DEF l
<1>4. ListOf(d) = l
  BY <1>2, <1>3, ListFacts, SeqEqual
<1> QED BY <1>4 DEF l

\* Filling the first free slot appends to the list.
LEMMA GrowRefines ==
    ASSUME NEW c, Good(c), NEW d, Good(d), NEW e \in Profiles,
           d.count = c.count + 1, d.profiles = [c.profiles EXCEPT ![c.count] = e]
    PROVE  ListOf(d) = Append(ListOf(c), e)
<1> DEFINE l == Append(ListOf(c), e)
<1>1. /\ l \in Seq(Profiles) /\ Len(l) = c.count + 1
      /\ \A j \in 1..(c.count + 1) : l[j] = IF j = c.count + 1 THEN e ELSE c.profiles[j - 1]
  BY ListFacts
<1>2. \A j \in 1..(c.count + 1) : ListOf(d)[j] = IF j = c.count + 1 THEN e ELSE c.profiles[j - 1]
  <2> SUFFICES ASSUME NEW j \in 1..(c.count + 1)
               PROVE  d.profiles[j - 1] = IF j = c.count + 1 THEN e ELSE c.profiles[j - 1]
    BY ListFacts
  <2>1. c.count + 1 <= ProfileMax /\ c.count \in Nat
    BY ListFacts
  <2>2. c.profiles \in [Slots -> Profiles] /\ j - 1 \in Slots
    BY <2>1, MaxFits DEF Good, Configs, Slots
  <2> QED BY <2>1, <2>2
<1> HIDE DEF l
<1>3. ListOf(d) = l
  BY <1>1, <1>2, ListFacts, SeqEqual
<1> QED BY <1>3 DEF l

\* config_find_profile finds the first match.
LEMMA FindLeast ==
    ASSUME NEW c, Good(c), NEW s
    PROVE  IF Matches(c, s) = {} THEN FindProfile(c, s) = -1
           ELSE /\ FindProfile(c, s) \in Matches(c, s)
                /\ \A j \in Matches(c, s) : FindProfile(c, s) <= j
<1>1. CASE Matches(c, s) = {}
  BY <1>1 DEF FindProfile
<1>2. CASE Matches(c, s) # {}
  <2>1. Matches(c, s) \in SUBSET Nat
    BY DEF Matches, Used, Good, Configs
  <2>2. \E i \in Matches(c, s) : \A j \in Matches(c, s) : i <= j
    BY <1>2, <2>1, LeastIndex
  <2> QED BY <1>2, <2>2 DEF FindProfile
<1> QED BY <1>1, <1>2

Places(c, s) == {i \in 1..Len(ListOf(c)) : ListOf(c)[i].ssid = s}

LEMMA FindRefines ==
    ASSUME NEW c, Good(c), NEW s
    PROVE  IF Places(c, s) = {} THEN FindProfile(c, s) = -1
           ELSE /\ FindProfile(c, s) \in 0..(c.count - 1)
                /\ PL!First(Places(c, s)) = FindProfile(c, s) + 1
<1> DEFINE k == FindProfile(c, s)
           P == Places(c, s)
<1>1. c.count \in Nat /\ Matches(c, s) \subseteq 0..(c.count - 1)
  BY ListFacts DEF Matches, Used
<1>2. \A i \in Int : i + 1 \in P <=> i \in Matches(c, s)
  BY ListFacts DEF Places, Matches, Used
<1>3. P \subseteq Int
  BY ListFacts DEF Places
<1>4. CASE P = {}
  BY <1>1, <1>2, <1>4, FindLeast
<1>5. CASE P # {}
  <2>1. PICK i \in P : TRUE
    BY <1>5
  <2>2. i - 1 \in Matches(c, s)
    BY <1>2, <1>3
  <2>3. k \in Matches(c, s) /\ \A j \in Matches(c, s) : k <= j
    BY <2>2, FindLeast
  <2>4. k \in Int /\ k + 1 \in P
    BY <1>1, <1>2, <2>3
  <2> HIDE DEF k, P
  <2>5. \A j \in P : k + 1 <= j
    <3> SUFFICES ASSUME NEW j \in P PROVE k + 1 <= j
      OBVIOUS
    <3>1. j \in Int /\ j - 1 \in Matches(c, s)
      BY <1>2, <1>3
    <3> QED BY <2>3, <2>4, <3>1
  <2>6. PL!First(P) \in P /\ \A j \in P : PL!First(P) <= j
    BY <2>4, <2>5 DEF PL!First
  <2>7. PL!First(P) = k + 1
    <3>1. PICK m : m = PL!First(P)
      OBVIOUS
    <3>2. m \in Int /\ m <= k + 1 /\ k + 1 <= m
      BY <1>3, <2>4, <2>5, <2>6, <3>1
    <3> QED BY <2>4, <3>1, <3>2
  <2> QED BY <1>1, <1>5, <2>3, <2>7 DEF k, P
<1> QED BY <1>4, <1>5

\* `join` and the portal: the first entry of the name takes the passphrase, or a new one is appended.
LEMMA StageRefines ==
    ASSUME NEW c, Good(c), NEW s \in Ssids, NEW p \in Passes, AddIndex(c, s) >= 0,
           NEW d, d = Stage(AddProfile(c, s), AddIndex(c, s), p)
    PROVE  /\ Good(d)
           /\ \/ /\ Places(c, s) # {}
                 /\ SelOf(d) = PL!First(Places(c, s))
                 /\ ListOf(d) = [ListOf(c) EXCEPT ![PL!First(Places(c, s))].pass = p]
              \/ /\ Places(c, s) = {}
                 /\ Len(ListOf(c)) < ProfileMax
                 /\ ListOf(d) = Append(ListOf(c), PL!Entry(s, p))
                 /\ SelOf(d) = Len(ListOf(c)) + 1
<1> DEFINE k == AddIndex(c, s)
<1>1. Good(AddProfile(c, s)) /\ k \in 0..(AddProfile(c, s).count - 1)
  BY AddProfileGood
<1>2. Good(d)
  BY <1>1, StageGood
<1>3. /\ c.count \in Nat /\ c.count <= ProfileMax /\ c.profiles \in [Slots -> Profiles]
      /\ c = [count |-> c.count, active |-> c.active, profiles |-> c.profiles]
  BY ListFacts DEF Good, Configs
<1>4. CASE Places(c, s) # {}
  <2>1. k = FindProfile(c, s) /\ k \in 0..(c.count - 1) /\ PL!First(Places(c, s)) = k + 1
    BY <1>3, <1>4, FindRefines DEF AddIndex
  <2>2. AddProfile(c, s) = c
    BY <2>1 DEF AddProfile
  <2>3. k \in Slots
    BY <1>3, <2>1, MaxFits DEF Slots
  <2> DEFINE e == [c.profiles[k] EXCEPT !.pass = p]
  <2> HIDE DEF k
  <2>4. d = [[c EXCEPT !.active = k] EXCEPT !.profiles[k].pass = p]
    BY <2>2 DEF Stage, k
  <2>5. d.count = c.count /\ d.active = k /\ d.profiles = [c.profiles EXCEPT ![k] = e]
    BY <1>3, <2>3, <2>4
  <2>6. e \in Profiles
    BY <1>3, <2>3 DEF Profiles
  <2> HIDE DEF e
  <2>7. ListOf(d) = [ListOf(c) EXCEPT ![k + 1] = e]
    BY <1>2, <2>1, <2>5, <2>6, WriteRefines
  <2>8. ListOf(c)[k + 1] = c.profiles[k]
    <3>1. k + 1 \in 1..c.count /\ (k + 1) - 1 = k
      BY <1>3, <2>1
    <3> QED BY <3>1, ListFacts
  <2>9. ListOf(d) = [ListOf(c) EXCEPT ![k + 1].pass = p]
    BY <2>7, <2>8 DEF e
  <2>10. SelOf(d) = k + 1
    BY <1>3, <2>1, <2>5, MaxFits DEF SelOf, ActiveNone
  <2> QED BY <1>2, <1>4, <2>1, <2>9, <2>10
<1>5. CASE Places(c, s) = {}
  <2>1. FindProfile(c, s) = -1
    BY <1>5, FindRefines
  <2>2. c.count < ProfileMax /\ k = c.count
    BY <1>3, <2>1, MaxFits DEF AddIndex
  <2>3. c.count \in Slots
    BY <1>3, <2>2, MaxFits DEF Slots
  <2> DEFINE e == [ssid |-> s, pass |-> p]
             b == [ssid |-> s, pass |-> Blank]
             q == [c.profiles EXCEPT ![c.count] = b]
             a == AddProfile(c, s)
  <2>4. a.count = c.count + 1 /\ a.profiles = q
    BY <1>3, <2>1, <2>2, MaxFits DEF AddProfile
  <2>5. d.count = a.count /\ d.active = k /\ d.profiles = [a.profiles EXCEPT ![k].pass = p]
    <3>1. a = [count |-> a.count, active |-> a.active, profiles |-> a.profiles]
      BY <1>1 DEF Good, Configs
    <3> HIDE DEF a, k, q
    <3> QED BY <3>1 DEF Stage, a, k
  <2>6. d.profiles = [c.profiles EXCEPT ![c.count] = e]
    <3>1. d.profiles = [q EXCEPT ![c.count].pass = p]
      BY <2>2, <2>4, <2>5
    <3>2. q[c.count] = b
      BY <1>3, <2>3
    <3> QED BY <1>3, <2>3, <3>1, <3>2
  <2>7. e \in Profiles
    BY DEF Profiles
  <2>8. d.count = c.count + 1 /\ d.active = c.count
    BY <2>2, <2>4, <2>5
  <2> HIDE DEF e
  <2>9. ListOf(d) = Append(ListOf(c), e)
    BY <1>2, <2>6, <2>7, <2>8, GrowRefines
  <2>10. SelOf(d) = c.count + 1
    BY <1>3, <2>2, <2>8, MaxFits DEF SelOf, ActiveNone
  <2>11. Len(ListOf(c)) = c.count
    BY ListFacts
  <2> QED BY <1>2, <1>5, <2>2, <2>9, <2>10, <2>11 DEF PL!Entry, e
<1> QED BY <1>4, <1>5

LEMMA EmptyList == ASSUME NEW c, Good(c) PROVE ListOf(c) = <<>> <=> c.count = 0
<1>1. ListOf(c) \in Seq(Profiles) /\ Len(ListOf(c)) = c.count
  BY ListFacts
<1> QED BY <1>1, EmptySeq

\* ensure_active_profile makes a blank first entry when there is none, and nothing else.
LEMMA EnsureShape ==
    ASSUME NEW c, Good(c)
    PROVE  LET d == EnsureActiveProfile(c) IN
           IF c.count = 0
           THEN d.count = 1 /\ d.active = 0 /\ d.profiles = [c.profiles EXCEPT ![0] = ZeroProfile]
           ELSE d = c
<1>1. /\ c.count \in Nat /\ c.profiles \in [Slots -> Profiles]
      /\ IF c.count = 0 THEN c.active = ActiveNone ELSE c.active # ActiveNone
  BY MaxFits DEF Good, Configs, WellFormed, ActiveInRange, ActiveNone
<1>2. CASE c.count # 0
  BY <1>1, <1>2 DEF EnsureActiveProfile
<1>3. CASE c.count = 0
  <2>1. Matches(c, Blank) = {}
    BY <1>3 DEF Matches, Used
  <2>2. FindProfile(c, Blank) = -1
    BY <2>1 DEF FindProfile
  <2>3. AddProfile(c, Blank) = [count |-> 1, active |-> 0,
                                profiles |-> [c.profiles EXCEPT ![0] = ZeroProfile]]
    BY <1>1, <1>3, <2>2, MaxFits DEF AddProfile, ZeroProfile
  <2> QED BY <1>1, <1>3, <2>3 DEF EnsureActiveProfile
<1> QED BY <1>2, <1>3

\* `set ssid` and `set pass`: the selected entry is rewritten, or a first one made.
LEMMA RewriteRefines ==
    ASSUME NEW c, Good(c), NEW d, Good(d), NEW s \in Ssids, NEW p \in Passes,
           LET b == EnsureActiveProfile(c) IN
           /\ d.count = b.count /\ d.active = b.active
           /\ d.profiles = [b.profiles EXCEPT ![b.active] = [ssid |-> s, pass |-> p]]
    PROVE  IF ListOf(c) = <<>>
           THEN ListOf(d) = <<PL!Entry(s, p)>> /\ SelOf(d) = 1
           ELSE ListOf(d) = [ListOf(c) EXCEPT ![SelOf(c)] = PL!Entry(s, p)] /\ SelOf(d) = SelOf(c)
<1> DEFINE b == EnsureActiveProfile(c)
           e == [ssid |-> s, pass |-> p]
<1>1. e \in Profiles /\ e = PL!Entry(s, p)
  BY DEF Profiles, PL!Entry
<1>2. c.count \in Nat /\ c.profiles \in [Slots -> Profiles]
  BY ListFacts DEF Good, Configs
<1>3. CASE c.count = 0
  <2>1. b.count = 1 /\ b.active = 0 /\ b.profiles = [c.profiles EXCEPT ![0] = ZeroProfile]
    BY <1>3, EnsureShape
  <2> HIDE DEF b, e
  <2>2. d.count = 1 /\ d.active = 0 /\ d.profiles = [b.profiles EXCEPT ![0] = e]
    BY <2>1 DEF b, e
  <2>3. 0 \in Slots
    BY MaxFits DEF Slots
  <2>4. d.profiles = [c.profiles EXCEPT ![0] = e]
    BY <1>2, <2>1, <2>2, <2>3
  <2>5. ListOf(d) = Append(ListOf(c), e)
    BY <1>1, <1>3, <2>2, <2>4, GrowRefines
  <2>6. ListOf(c) = <<>>
    BY <1>3, EmptyList
  <2>7. Append(<<>>, e) = <<e>>
    OBVIOUS
  <2>8. SelOf(d) = 1
    BY <2>2 DEF SelOf, ActiveNone
  <2> QED BY <1>1, <2>5, <2>6, <2>7, <2>8
<1>4. CASE c.count # 0
  <2>1. b = c /\ c.active \in 0..(c.count - 1) /\ SelOf(c) = c.active + 1
    BY <1>4, EnsureShape, SelFacts
  <2> HIDE DEF b, e
  <2>2. d.count = c.count /\ d.active = c.active /\ d.profiles = [c.profiles EXCEPT ![c.active] = e]
    BY <2>1 DEF b, e
  <2>3. ListOf(d) = [ListOf(c) EXCEPT ![c.active + 1] = e]
    BY <1>1, <2>1, <2>2, WriteRefines
  <2>4. SelOf(d) = SelOf(c)
    BY <2>2 DEF SelOf
  <2>5. ListOf(c) # <<>>
    BY <1>4, EmptyList
  <2> QED BY <1>1, <2>1, <2>3, <2>4, <2>5
<1> QED BY <1>3, <1>4

\* config_del_profile removes one entry and keeps the others in order; the index follows the selected one.
LEMMA DropRefines ==
    ASSUME NEW c, Good(c), NEW n \in 1..c.count, NEW d, d = DelProfile(c, n - 1)
    PROVE  /\ ListOf(d) = PL!RemoveAt(ListOf(c), n)
           /\ SelOf(d) = IF c.count = 1 THEN 0 ELSE IF n = SelOf(c) THEN 1
                         ELSE IF n < SelOf(c) THEN SelOf(c) - 1 ELSE SelOf(c)
<1>1. /\ c.count \in Nat /\ c.count <= ProfileMax /\ n \in Int /\ c.count >= 1
      /\ c.profiles \in [Slots -> Profiles]
  BY ListFacts DEF Good, Configs
<1>2. Good(d)
  BY <1>1, DelProfileGood
<1>3. d = [count |-> c.count - 1, active |-> DelActive(c, n - 1),
           profiles |-> [i \in Slots |->
                           IF i = c.count - 1 THEN ZeroProfile
                           ELSE IF i \in (n - 1)..(c.count - 2) THEN c.profiles[i + 1]
                           ELSE c.profiles[i]]]
  BY <1>1 DEF DelProfile
<1>4. SelOf(c) = c.active + 1 /\ c.active \in 0..(c.count - 1)
  BY <1>1, SelFacts
<1>5. SelOf(d) = IF c.count = 1 THEN 0 ELSE IF n = SelOf(c) THEN 1
                 ELSE IF n < SelOf(c) THEN SelOf(c) - 1 ELSE SelOf(c)
  <2>1. d.active = DelActive(c, n - 1)
    BY <1>3
  <2>2. c.active \in Int /\ c.active >= 0 /\ c.active < 255
    BY <1>1, <1>4, MaxFits DEF ActiveNone
  <2>3. CASE c.count = 1
    <3>1. d.active = 255
      BY <2>1, <2>3 DEF DelActive, ActiveNone
    <3> QED BY <2>3, <3>1 DEF SelOf, ActiveNone
  <2>4. CASE c.count # 1 /\ n = SelOf(c)
    <3>1. d.active = 0
      BY <1>1, <1>4, <2>1, <2>4 DEF DelActive
    <3> QED BY <2>4, <3>1 DEF SelOf, ActiveNone
  <2>5. CASE c.count # 1 /\ n < SelOf(c)
    <3>1. d.active = c.active - 1
      BY <1>1, <1>4, <2>1, <2>2, <2>5 DEF DelActive, ActiveNone
    <3>2. SelOf(d) = (c.active - 1) + 1
      BY <2>2, <3>1 DEF SelOf, ActiveNone
    <3>3. n # SelOf(c) /\ SelOf(d) = SelOf(c) - 1
      BY <1>1, <1>4, <2>2, <2>5, <3>2
    <3> QED BY <2>5, <3>3
  <2>6. CASE c.count # 1 /\ n # SelOf(c) /\ ~(n < SelOf(c))
    <3>1. d.active = c.active
      BY <1>1, <1>4, <2>1, <2>2, <2>6 DEF DelActive
    <3> QED BY <2>6, <3>1 DEF SelOf
  <2> QED BY <2>3, <2>4, <2>5, <2>6
<1> DEFINE l == ListOf(c)
           f == SubSeq(l, 1, n - 1)
           g == SubSeq(l, n + 1, Len(l))
<1>6. l \in Seq(Profiles) /\ Len(l) = c.count /\ \A i \in 1..c.count : l[i] = c.profiles[i - 1] /\ l[i] \in Profiles
  <2>1. \A i \in 1..c.count : l[i] \in Profiles
    BY ListFacts, ElementOfSeq
  <2> QED BY <2>1, ListFacts
<1> HIDE DEF l
<1>7. f \in Seq(Profiles) /\ Len(f) = n - 1 /\ \A i \in 1..(n - 1) : f[i] = l[i]
  <2>1. \A i \in 1..(n - 1) : l[i] \in Profiles
    BY <1>1, <1>6
  <2> QED BY <1>1, <2>1, SubSeqProperties
<1>8. g \in Seq(Profiles) /\ Len(g) = c.count - n /\ \A i \in 1..(c.count - n) : g[i] = l[n + i]
  <2>1. \A i \in (n + 1)..c.count : l[i] \in Profiles
    BY <1>1, <1>6
  <2>2. /\ SubSeq(l, n + 1, c.count) \in Seq(Profiles)
        /\ Len(SubSeq(l, n + 1, c.count)) = IF n + 1 <= c.count THEN c.count - (n + 1) + 1 ELSE 0
        /\ \A i \in 1..(c.count - (n + 1) + 1) : SubSeq(l, n + 1, c.count)[i] = l[(n + 1) + i - 1]
    BY <1>1, <2>1, SubSeqProperties
  <2>3. c.count - (n + 1) + 1 = c.count - n
    BY <1>1
  <2>4. \A i \in 1..(c.count - n) : (n + 1) + i - 1 = n + i
    BY <1>1
  <2>5. Len(g) = c.count - n
    BY <1>1, <1>6, <2>2, <2>3
  <2> QED BY <1>6, <2>2, <2>3, <2>4, <2>5
<1> HIDE DEF f, g
<1> DEFINE r == f \o g
<1>9. /\ r \in Seq(Profiles) /\ Len(r) = c.count - 1
      /\ \A i \in 1..(c.count - 1) : r[i] = IF i <= n - 1 THEN f[i] ELSE g[i - (n - 1)]
  <2>1. Len(f) + Len(g) = c.count - 1 /\ Len(f) = n - 1
    BY <1>1, <1>7, <1>8
  <2>2. /\ f \o g \in Seq(Profiles) /\ Len(f \o g) = Len(f) + Len(g)
        /\ \A i \in 1..(Len(f) + Len(g)) :
             (f \o g)[i] = IF i <= Len(f) THEN f[i] ELSE g[i - Len(f)]
    BY <1>7, <1>8, ConcatProperties
  <2> QED BY <2>1, <2>2
<1> HIDE DEF r
<1>10. \A i \in 1..(c.count - 1) : r[i] = IF i < n THEN c.profiles[i - 1] ELSE c.profiles[i]
  <2> SUFFICES ASSUME NEW i \in 1..(c.count - 1)
               PROVE  r[i] = IF i < n THEN c.profiles[i - 1] ELSE c.profiles[i]
    OBVIOUS
  <2>1. CASE i < n
    <3>1. i <= n - 1 /\ i \in 1..(n - 1) /\ i \in 1..c.count
      BY <1>1, <2>1
    <3> QED BY <1>6, <1>7, <1>9, <2>1, <3>1
  <2>2. CASE ~(i < n)
    <3>1. ~(i <= n - 1) /\ i - (n - 1) \in 1..(c.count - n) /\ n + (i - (n - 1)) = i + 1
          /\ i + 1 \in 1..c.count /\ (i + 1) - 1 = i
      BY <1>1, <2>2
    <3>2. r[i] = g[i - (n - 1)]
      BY <1>9, <3>1
    <3>3. g[i - (n - 1)] = l[i + 1]
      BY <1>8, <3>1
    <3>4. l[i + 1] = c.profiles[i]
      BY <1>6, <3>1
    <3> QED BY <2>2, <3>2, <3>3, <3>4
  <2> QED BY <2>1, <2>2
<1>11. d.count = c.count - 1
  BY <1>3
<1>12. \A i \in 1..(c.count - 1) : ListOf(d)[i] = IF i < n THEN c.profiles[i - 1] ELSE c.profiles[i]
  <2> SUFFICES ASSUME NEW i \in 1..(c.count - 1)
               PROVE  d.profiles[i - 1] = IF i < n THEN c.profiles[i - 1] ELSE c.profiles[i]
    BY <1>2, <1>11, ListFacts
  <2>1. i - 1 \in Slots /\ i - 1 # c.count - 1 /\ (i - 1) + 1 = i
    BY <1>1, MaxFits DEF Slots
  <2>2. d.profiles[i - 1] = IF i - 1 \in (n - 1)..(c.count - 2) THEN c.profiles[i] ELSE c.profiles[i - 1]
    BY <1>3, <2>1
  <2> QED BY <1>1, <2>2
<1>13. ListOf(d) = r
  <2>1. PICK m : m = ListOf(d)
    OBVIOUS
  <2>2. m \in Seq(Profiles) /\ Len(m) = c.count - 1
    BY <1>2, <1>11, <2>1, ListFacts
  <2>3. \A i \in 1..Len(m) : m[i] = r[i]
    BY <1>10, <1>12, <2>1, <2>2
  <2>4. m = r
    BY <1>9, <2>2, <2>3, SeqEqual
  <2> QED BY <2>1, <2>4
<1> QED BY <1>5, <1>13 DEF PL!RemoveAt, r, f, g, l

\* What the selected entry holds, the blank one that ensure_active_profile makes included.
LEMMA SelectedEntry ==
    ASSUME NEW c, Good(c), NEW b, b = EnsureActiveProfile(c), NEW e, e = b.profiles[b.active]
    PROVE  /\ e.ssid = IF ListOf(c) = <<>> THEN Blank ELSE ListOf(c)[SelOf(c)].ssid
           /\ e.pass = IF ListOf(c) = <<>> THEN Blank ELSE ListOf(c)[SelOf(c)].pass
<1>1. c.count \in Nat /\ c.profiles \in [Slots -> Profiles]
  BY ListFacts DEF Good, Configs
<1>2. CASE c.count = 0
  <2>1. b.active = 0 /\ b.profiles = [c.profiles EXCEPT ![0] = ZeroProfile]
    BY <1>2, EnsureShape
  <2>2. 0 \in Slots
    BY MaxFits DEF Slots
  <2>3. e = ZeroProfile
    BY <1>1, <2>1, <2>2
  <2>4. ListOf(c) = <<>>
    BY <1>2, EmptyList
  <2> QED BY <2>3, <2>4 DEF ZeroProfile
<1>3. CASE c.count # 0
  <2>1. b = c /\ SelOf(c) = c.active + 1 /\ SelOf(c) \in 1..c.count /\ c.active \in 0..(c.count - 1)
    BY <1>3, EnsureShape, SelFacts
  <2>2. ListOf(c)[SelOf(c)] = c.profiles[SelOf(c) - 1] /\ SelOf(c) - 1 = c.active
    BY <1>1, <2>1, ListFacts
  <2>3. ListOf(c) # <<>>
    BY <1>3, EmptyList
  <2> QED BY <2>1, <2>2, <2>3
<1> QED BY <1>2, <1>3

\* A save makes the list durable, or an NVS failure leaves the durable one.
LEMMA SaveRefines ==
    ASSUME IndInv, IndInv', Save(cfg')
    PROVE  PL!Persist \/ AbsOf(Load(nvs')) = AbsOf(Load(nvs))
<1>1. CASE nvs' = cfg'
  <2>1. cfg' \in Configs
    BY DEF IndInv, TypeOK
  <2>2. nvs' \notin {NoBlob, BadBlob} /\ WellFormed(nvs')
    BY <1>1, <2>1, StoreAssumption DEF IndInv, StoreWellFormed
  <2>3. Load(nvs') = cfg'
    BY <1>1, <2>1, <2>2, LoadGood
  <2> QED BY <2>3 DEF PL!Persist, AbsOf
<1>2. CASE nvs' = nvs
  BY <1>2
<1> QED BY <1>1, <1>2 DEF Save

\* Every operation of the store is a command of the list, and a boot is a reboot.
LEMMA StepRefines ==
    ASSUME IndInv, IndInv', [Next]_vars
    PROVE  [PL!Next]_(PL!vars)
<1> DEFINE Keeps == AbsOf(Load(nvs')) = AbsOf(Load(nvs))
<1>1. Good(cfg) /\ Good(cfg')
  BY DEF IndInv, TypeOK, StoreWellFormed, Good
<1>2. UNCHANGED nvs => Keeps
  OBVIOUS
<1>3. ASSUME NEW s \in Ssids, SetSsid(s) PROVE PL!Rename(s) /\ Keeps
  <2>1. PICK b : b = EnsureActiveProfile(cfg)
    OBVIOUS
  <2>2. Good(b) /\ b.active \in 0..(b.count - 1)
    BY <1>1, <2>1, EnsureGood
  <2>3. /\ b.count \in Nat /\ b.count <= ProfileMax /\ b.profiles \in [Slots -> Profiles]
        /\ b = [count |-> b.count, active |-> b.active, profiles |-> b.profiles]
    BY <2>2, ListFacts DEF Good, Configs
  <2>4. b.active \in Slots
    BY <2>2, <2>3, MaxFits DEF Slots
  <2>5. PICK e : e = b.profiles[b.active]
    OBVIOUS
  <2>6. e \in Profiles /\ e.pass \in Passes /\ e = [ssid |-> e.ssid, pass |-> e.pass]
    BY <2>3, <2>4, <2>5 DEF Profiles
  <2>7. cfg' = [b EXCEPT !.profiles[b.active].ssid = s]
    BY <1>3, <2>1 DEF SetSsid
  <2>8. /\ cfg'.count = b.count /\ cfg'.active = b.active
        /\ cfg'.profiles = [b.profiles EXCEPT ![b.active] = [ssid |-> s, pass |-> e.pass]]
    BY <2>3, <2>4, <2>5, <2>6, <2>7
  <2>9. e.pass = IF ListOf(cfg) = <<>> THEN Blank ELSE ListOf(cfg)[SelOf(cfg)].pass
    BY <1>1, <2>1, <2>5, SelectedEntry
  <2>10. IF ListOf(cfg) = <<>>
         THEN ListOf(cfg') = <<PL!Entry(s, e.pass)>> /\ SelOf(cfg') = 1
         ELSE ListOf(cfg') = [ListOf(cfg) EXCEPT ![SelOf(cfg)] = PL!Entry(s, e.pass)]
              /\ SelOf(cfg') = SelOf(cfg)
    BY <1>1, <2>1, <2>6, <2>8, RewriteRefines
  <2> QED BY <1>2, <1>3, <2>9, <2>10 DEF PL!Rename, PL!Rewrite, SetSsid
<1>4. ASSUME NEW p \in Passes, SetPass(p) PROVE PL!Rekey(p) /\ Keeps
  <2>1. PICK b : b = EnsureActiveProfile(cfg)
    OBVIOUS
  <2>2. Good(b) /\ b.active \in 0..(b.count - 1)
    BY <1>1, <2>1, EnsureGood
  <2>3. /\ b.count \in Nat /\ b.count <= ProfileMax /\ b.profiles \in [Slots -> Profiles]
        /\ b = [count |-> b.count, active |-> b.active, profiles |-> b.profiles]
    BY <2>2, ListFacts DEF Good, Configs
  <2>4. b.active \in Slots
    BY <2>2, <2>3, MaxFits DEF Slots
  <2>5. PICK e : e = b.profiles[b.active]
    OBVIOUS
  <2>6. e \in Profiles /\ e.ssid \in Ssids /\ e = [ssid |-> e.ssid, pass |-> e.pass]
    BY <2>3, <2>4, <2>5 DEF Profiles
  <2>7. cfg' = [b EXCEPT !.profiles[b.active].pass = p]
    BY <1>4, <2>1 DEF SetPass
  <2>8. /\ cfg'.count = b.count /\ cfg'.active = b.active
        /\ cfg'.profiles = [b.profiles EXCEPT ![b.active] = [ssid |-> e.ssid, pass |-> p]]
    BY <2>3, <2>4, <2>5, <2>6, <2>7
  <2>9. e.ssid = IF ListOf(cfg) = <<>> THEN Blank ELSE ListOf(cfg)[SelOf(cfg)].ssid
    BY <1>1, <2>1, <2>5, SelectedEntry
  <2>10. IF ListOf(cfg) = <<>>
         THEN ListOf(cfg') = <<PL!Entry(e.ssid, p)>> /\ SelOf(cfg') = 1
         ELSE ListOf(cfg') = [ListOf(cfg) EXCEPT ![SelOf(cfg)] = PL!Entry(e.ssid, p)]
              /\ SelOf(cfg') = SelOf(cfg)
    BY <1>1, <2>1, <2>6, <2>8, RewriteRefines
  <2> QED BY <1>2, <1>4, <2>9, <2>10 DEF PL!Rekey, PL!Rewrite, SetPass
<1>5. ASSUME NEW s \in Ssids, Join(s) PROVE PL!Choose(s, Blank) /\ Keeps
  BY <1>1, <1>2, <1>5, StageRefines DEF Join, PL!Choose, PL!Positions, Places, Passes
<1>6. ASSUME NEW s \in Names, NEW p \in Passes, PortalSuccess(s, p)
      PROVE  PL!Choose(s, p) /\ (PL!Persist \/ Keeps)
  <2>1. s \in Ssids
    BY DEF Ssids
  <2>2. PL!Choose(s, p)
    BY <1>1, <1>6, <2>1, StageRefines DEF PortalSuccess, PL!Choose, PL!Positions, Places
  <2> QED BY <1>6, <2>2, SaveRefines DEF PortalSuccess
<1>7. ASSUME NEW n \in 1..ProfileMax, Use(n) PROVE PL!Select(n) /\ Keeps
  <2>1. n \in 1..cfg.count /\ cfg' = [cfg EXCEPT !.active = n - 1]
    BY <1>7 DEF Use
  <2>2. cfg = [count |-> cfg.count, active |-> cfg.active, profiles |-> cfg.profiles]
    BY <1>1 DEF Good, Configs
  <2>3. cfg'.count = cfg.count /\ cfg'.profiles = cfg.profiles /\ cfg'.active = n - 1
    BY <2>1, <2>2
  <2>4. ListOf(cfg') = ListOf(cfg)
    BY <2>3 DEF ListOf
  <2>5. SelOf(cfg') = n
    BY <1>1, <2>1, <2>3, MaxFits, ListFacts DEF SelOf, ActiveNone
  <2>6. n \in 1..Len(ListOf(cfg))
    BY <1>1, <2>1, ListFacts
  <2> QED BY <1>2, <1>7, <2>4, <2>5, <2>6 DEF PL!Select, Use
<1>8. ASSUME NEW n \in 1..ProfileMax, Del(n) PROVE PL!Drop(n) /\ Keeps
  <2>1. n \in 1..cfg.count /\ cfg' = DelProfile(cfg, n - 1)
    BY <1>8 DEF Del
  <2>2. Len(ListOf(cfg)) = cfg.count
    BY <1>1, ListFacts
  <2>3. /\ ListOf(cfg') = PL!RemoveAt(ListOf(cfg), n)
        /\ SelOf(cfg') = IF cfg.count = 1 THEN 0 ELSE IF n = SelOf(cfg) THEN 1
                         ELSE IF n < SelOf(cfg) THEN SelOf(cfg) - 1 ELSE SelOf(cfg)
    BY <1>1, <2>1, DropRefines
  <2> QED BY <1>2, <1>8, <2>1, <2>2, <2>3 DEF PL!Drop, Del
<1>9. ASSUME SaveCmd PROVE UNCHANGED <<ListOf(cfg), SelOf(cfg)>> /\ (PL!Persist \/ Keeps)
  <2>1. cfg' = cfg /\ Save(cfg')
    BY <1>9 DEF SaveCmd, Save
  <2> QED BY <2>1, SaveRefines
<1>10. ASSUME ClearWifiAndReprovision PROVE PL!Wipe /\ (PL!Persist \/ Keeps)
  <2>1. cfg' = ClearWifi /\ Save(cfg')
    BY <1>10 DEF ClearWifiAndReprovision
  <2>2. cfg'.count = 0 /\ cfg'.active = ActiveNone
    BY <2>1 DEF ClearWifi
  <2>3. ListOf(cfg') = <<>> /\ SelOf(cfg') = 0
    BY <1>1, <2>2, EmptyList DEF SelOf
  <2> QED BY <2>1, <2>3, SaveRefines DEF PL!Wipe
<1>11. ASSUME Boot PROVE PL!Reboot
  <2>1. cfg' = Load(nvs) /\ nvs' = nvs
    BY <1>11 DEF Boot
  <2> QED BY <2>1 DEF PL!Reboot, AbsOf
<1>13. ASSUME BootErased PROVE PL!Reset
  <2>1. cfg' = Defaults /\ Load(nvs') = Defaults
    BY <1>13 DEF BootErased, Load
  <2> QED BY <2>1 DEF PL!Reset, AbsOf
<1>12. ASSUME UNCHANGED vars PROVE UNCHANGED PL!vars
  <2>1. cfg' = cfg /\ nvs' = nvs
    BY <1>12 DEF vars
  <2> QED BY <2>1 DEF PL!vars
<1> QED
  <2>1. CASE \E s \in Ssids : SetSsid(s)
    BY <1>3, <2>1 DEF PL!Next, PL!Command
  <2>2. CASE \E p \in Passes : SetPass(p)
    BY <1>4, <2>2 DEF PL!Next, PL!Command
  <2>3. CASE \E s \in Ssids : Join(s)
    BY <1>5, <2>3 DEF PL!Next, PL!Command, Passes
  <2>4. CASE \E s \in Names, p \in Passes : PortalSuccess(s, p)
    BY <1>6, <2>4 DEF PL!Next, PL!Command, Ssids
  <2>5. CASE \E n \in 1..ProfileMax : Use(n) \/ Del(n)
    BY <1>7, <1>8, <2>5 DEF PL!Next, PL!Command
  <2>6. CASE SaveCmd
    BY <1>9, <2>6 DEF PL!Next, PL!Command
  <2>7. CASE ClearWifiAndReprovision
    BY <1>10, <2>7 DEF PL!Next, PL!Command
  <2>8. CASE Boot
    BY <1>11, <2>8 DEF PL!Next
  <2>10. CASE BootErased
    BY <1>13, <2>10 DEF PL!Next
  <2>9. CASE UNCHANGED vars
    BY <1>12, <2>9
  <2> QED BY <2>1, <2>2, <2>3, <2>4, <2>5, <2>6, <2>7, <2>8, <2>9, <2>10 DEF Next

LEMMA InitRefines == Init => PL!Init
  BY DEF Init, Load, PL!Init, AbsOf

\* ConfigStore implements ProfileList: whatever the console, the portal, the button and restarts do in
\* whatever order, with any number of slots, the array and its index (config_store.c:99-169) behave as
\* a list with a selected entry, of which flash holds the last saved version.
THEOREM StoreImplementsList == Spec => ImplementsProfileList
<1>1. IndInv /\ IndInv' /\ [Next]_vars => [PL!Next]_(PL!vars)
  BY StepRefines
<1> QED BY InitInv, StepInv, InitRefines, <1>1, PTL DEF Spec, ImplementsProfileList, PL!Spec
================================================================================
