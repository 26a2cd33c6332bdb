-------------------------- MODULE PreflightProofs --------------------------
(***************************************************************************)
(* Proofs about Preflight, for every setup, set of flags, answer of the    *)
(* model and sequence of changes: a plan file that was not sealed again    *)
(* still says what it was made from, or is not loaded; what doctor lets    *)
(* pass can start; and the settings follow the documented precedence.  At  *)
(* the end, for answers of any length, which draft is found in them.       *)
(***************************************************************************)
EXTENDS Preflight, SequenceTheorems, WellFoundedInduction, TLAPS

\* The content the file had when it was made.
Made ==
  [workspace |-> Root(planned.config), sha |-> planned.head,
   provider |-> planned.config.provider, model |-> planned.config.model,
   capabilities |-> RequiredCapabilities(planned.draft), valid |-> planned.draft.valid]

\* The stored hash is that of what was made, unless somebody sealed the file
\* again.
HashInv ==
  /\ file # None /\ ~resealed => file.hash = Made
  /\ started # None => file # None
  /\ RunMatchesPlan

LEMMA HashInit == Init => HashInv
  BY DEF Init, HashInv, RunMatchesPlan

LEMMA RunMatches ==
  ASSUME NEW flags, HashInv, Run(flags)
  PROVE  HashInv'
<1> DEFINE c == Load(setup, flags)
<1>1. /\ LoadPlan(file)
      /\ Root(c) = file.content.workspace
      /\ file.content.sha # None => head[Root(c)] = file.content.sha
      /\ file.content.capabilities \subseteq Granted(c)
      /\ Lower(c.provider) = Lower(file.content.provider) /\ c.model = file.content.model
      /\ started' = [config |-> c, head |-> head[Root(c)]]
      /\ UNCHANGED <<file, planned, resealed>>
  BY DEF Run
<1>2. file # None
  BY <1>1 DEF LoadPlan
<1>3. ASSUME ~resealed PROVE RunMatchesPlan'
  <2>1. file.content = Made
    BY <1>1, <1>2, <1>3 DEF LoadPlan, HashInv
  <2>2. /\ Made.workspace = Root(planned.config) /\ Made.sha = planned.head
        /\ Made.provider = planned.config.provider /\ Made.model = planned.config.model
        /\ Made.capabilities = RequiredCapabilities(planned.draft)
    BY DEF Made
  <2>3. started'.config = c /\ started'.head = head[Root(c)]
    BY <1>1
  <2> HIDE DEF c
  <2> QED
    BY <1>1, <2>1, <2>2, <2>3 DEF RunMatchesPlan
<1>4. RunMatchesPlan'
  BY <1>1, <1>3 DEF RunMatchesPlan
<1>5. Made' = Made
  BY <1>1 DEF Made
<1> QED
  BY <1>1, <1>2, <1>4, <1>5 DEF HashInv

LEMMA HashNext == HashInv /\ [Next]_vars => HashInv'
<1> SUFFICES ASSUME HashInv, [Next]_vars PROVE HashInv'
  OBVIOUS
<1>1. ASSUME UNCHANGED <<file, planned, resealed, started>> PROVE HashInv'
  <2>1. Made' = Made
    BY <1>1 DEF Made
  <2> QED
    BY <1>1, <2>1 DEF HashInv, RunMatchesPlan
<1>2. CASE Change
  BY <1>1, <1>2 DEF Change
<1>3. CASE Edit
  <2>1. started = None /\ started' = None /\ Made' = Made
    BY <1>3 DEF Edit, Made
  <2>2. file # None /\ ((file'.hash = file.hash /\ resealed' = resealed) \/ resealed' = TRUE)
    BY <1>3 DEF Edit
  <2>3. ~resealed' => file'.hash = Made'
    BY <2>1, <2>2 DEF HashInv
  <2> QED
    BY <2>1, <2>3 DEF HashInv, RunMatchesPlan
<1>4. ASSUME NEW flags \in FlagSets, Plan(flags) PROVE HashInv'
  <2>1. started' = None
    BY <1>4 DEF Plan
  <2> DEFINE c == Load(setup, flags)
  <2>2. PICK d : /\ file' = [content |-> Content(c, d), hash |-> Content(c, d)]
                 /\ planned' = [config |-> c, head |-> head[Root(c)], draft |-> d]
    BY <1>4 DEF Plan
  <2>3. /\ file'.hash = Content(c, d) /\ planned'.config = c /\ planned'.head = head[Root(c)]
        /\ planned'.draft = d
    BY <2>2
  <2>4. Made' = Content(c, d)
    BY <2>3 DEF Made, Content
  <2> QED
    BY <2>1, <2>3, <2>4 DEF HashInv, RunMatchesPlan
<1>5. ASSUME NEW flags \in FlagSets, Run(flags) PROVE HashInv'
  BY <1>5, RunMatches
<1>6. CASE UNCHANGED vars
  BY <1>1, <1>6 DEF vars
<1> QED
  BY <1>2, <1>3, <1>4, <1>5, <1>6 DEF Next

\* A run that starts on a plan file nobody sealed again has the workspace,
\* provider, model and commit of the plan, and the capabilities its draft needs,
\* whatever was changed, and however often, between `plan` and `run`.
THEOREM RunIsPlanned == Spec => []RunMatchesPlan
<1>1. HashInv => RunMatchesPlan
  BY DEF HashInv
<1> QED
  BY HashInit, HashNext, <1>1, PTL DEF Spec

\* What doctor requires of a configuration is what building the model and
\* opening the workspace require, for every setup.  That its test of keyEnv
\* covers the provider's test of needsAuth is a fact about the registry's entries.
LEMMA DoctorCovers ==
  ASSUME NEW c, DoctorPasses(setup.keys, disk[Root(c)], state, c),
         disk[Root(c)] # "closed", c.evidence_dir \in logs
  PROVE  Starts(c)
<1>1. c # NoConfig
  BY DEF DoctorPasses, NoConfig, Settings
<1>2. disk[Root(c)] = "directory"
  BY DEF DoctorPasses
<1>3. \A e \in Registry : e.needsAuth => e.keyEnv # ""
  <2>1. \A p, k : RegistryEntry(p, k, TRUE).keyEnv = k
    BY DEF RegistryEntry
  <2>2. ~RegistryEntry("ollama", "", FALSE).needsAuth
    BY DEF RegistryEntry
  <2>3. SUFFICES ASSUME NEW e \in Registry, e # RegistryEntry("ollama", "", FALSE)
                 PROVE  e.keyEnv # ""
    BY <2>2
  <2> QED
    BY <2>1, <2>3 DEF Registry
<1>4. FromConfig(setup.keys, c)
  BY <1>3 DEF DoctorPasses, CredentialPresent, FromConfig, Known
<1> QED
  BY <1>1, <1>2, <1>4 DEF Starts

\* When no required check of doctor fails, `plan` with the same flags reaches its
\* model, but for the two things no check tries.
THEOREM DoctorIsEnough == Spec => []DoctorMeansStartable
<1>1. DoctorMeansStartable
  BY DoctorCovers DEF DoctorMeansStartable
<1> QED
  BY <1>1, PTL

-----------------------------------------------------------------------------
(***************************************************************************)
(* Where a setting comes from.                                             *)
(***************************************************************************)
NativeInv ==
  /\ DOMAIN setup = {"env", "legacy", "minimax", "keys", "files"}
  /\ DOMAIN setup.minimax \subseteq {"base_url", "model"}

LEMMA NativeInit == Init => NativeInv
  BY PreflightAssumption DEF Init, NativeInv

LEMMA NativeNext == NativeInv /\ [Next]_vars => NativeInv'
<1> SUFFICES ASSUME NativeInv, [Next]_vars PROVE NativeInv'
  OBVIOUS
<1>1. CASE setup' = setup
  BY <1>1 DEF NativeInv
<1>2. ASSUME NEW f \in DOMAIN setup, NEW s \in Setups, setup' = [setup EXCEPT ![f] = s[f]]
      PROVE  NativeInv'
  <2>1. DOMAIN setup' = DOMAIN setup
    BY <1>2
  <2>2. setup'.minimax = IF f = "minimax" THEN s.minimax ELSE setup.minimax
    BY <1>2 DEF NativeInv
  <2> QED
    BY <2>1, <2>2, PreflightAssumption DEF NativeInv
<1>3. CASE Change
  BY <1>1, <1>2, <1>3 DEF Change
<1>4. CASE Edit
  BY <1>1, <1>4 DEF Edit, surroundings
<1>5. ASSUME NEW flags \in FlagSets, Plan(flags) \/ Run(flags) PROVE NativeInv'
  BY <1>1, <1>5 DEF Plan, Run, surroundings
<1> QED
  BY <1>1, <1>3, <1>4, <1>5 DEF Next, vars

LEMMA OverHas ==
  ASSUME NEW f, NEW g, NEW x \in DOMAIN f \cup DOMAIN g
  PROVE  x \in DOMAIN Over(f, g) /\ Over(f, g)[x] = IF x \in DOMAIN f THEN f[x] ELSE g[x]
  BY DEF Over

LEMMA OverHasNot ==
  ASSUME NEW f, NEW g
  PROVE  DOMAIN Over(f, g) = DOMAIN f \cup DOMAIN g
  BY DEF Over

LEMMA LeastOfSix ==
  ASSUME NEW T \in SUBSET (1..6), 6 \in T
  PROVE  \E n \in T : \A m \in T : n <= m
<1>1. ASSUME NEW n \in T, \A m \in 1..n - 1 : m \notin T
      PROVE  \A m \in T : n <= m
  BY <1>1
<1>2. \E n \in T : \A m \in 1..n - 1 : m \notin T
  <2>1. CASE 1 \in T
    BY <2>1
  <2>2. CASE 1 \notin T /\ 2 \in T
    BY <2>2
  <2>3. CASE {1, 2} \cap T = {} /\ 3 \in T
    BY <2>3
  <2>4. CASE {1, 2, 3} \cap T = {} /\ 4 \in T
    BY <2>4
  <2>5. CASE {1, 2, 3, 4} \cap T = {} /\ 5 \in T
    BY <2>5
  <2>6. CASE {1, 2, 3, 4, 5} \cap T = {}
    BY <2>6
  <2> QED
    BY <2>1, <2>2, <2>3, <2>4, <2>5, <2>6
<1> QED
  BY <1>1, <1>2

\* The first of the sources that has a setting gives its value.
LEMMA FirstGives ==
  ASSUME NEW a, NEW b, NEW c, NEW d, NEW e, NEW g, NEW f, f \in DOMAIN g
  PROVE  First(<<a, b, c, d, e, g>>, f) =
           IF f \in DOMAIN a THEN a[f]
           ELSE IF f \in DOMAIN b THEN b[f]
           ELSE IF f \in DOMAIN c THEN c[f]
           ELSE IF f \in DOMAIN d THEN d[f]
           ELSE IF f \in DOMAIN e THEN e[f]
           ELSE g[f]
<1> DEFINE sources == <<a, b, c, d, e, g>>
           having == {i \in 1..Len(sources) : f \in DOMAIN sources[i]}
           least == CHOOSE i \in having : \A j \in having : i <= j
<1>1. First(sources, f) = sources[least][f]
  BY DEF First
<1>2. /\ Len(sources) = 6
      /\ sources[1] = a /\ sources[2] = b /\ sources[3] = c
      /\ sources[4] = d /\ sources[5] = e /\ sources[6] = g
  OBVIOUS
<1>3. having \subseteq 1..6 /\ 6 \in having
  BY <1>2
<1>4. least \in having /\ \A k \in having : least <= k
  <2> HIDE DEF having
  <2>1. \E i \in having : \A k \in having : i <= k
    BY <1>3, LeastOfSix
  <2> QED
    BY <2>1
<1> HIDE DEF least
<1>5. /\ least \in 1..6 /\ f \in DOMAIN sources[least]
      /\ f \in DOMAIN a => least <= 1
      /\ f \in DOMAIN b => least <= 2
      /\ f \in DOMAIN c => least <= 3
      /\ f \in DOMAIN d => least <= 4
      /\ f \in DOMAIN e => least <= 5
  <2>1. \A k \in 1..6 : f \in DOMAIN sources[k] => k \in having
    BY <1>2
  <2> QED
    BY <1>2, <1>3, <1>4, <2>1
<1> HIDE DEF sources
<1>6. \/ least = 1 /\ sources[least] = a
      \/ least = 2 /\ sources[least] = b
      \/ least = 3 /\ sources[least] = c
      \/ least = 4 /\ sources[least] = d
      \/ least = 5 /\ sources[least] = e
      \/ least = 6 /\ sources[least] = g
  BY <1>2, <1>5
<1> QED
  BY <1>1, <1>5, <1>6 DEF sources

\* What Merge gives, setting by setting, and that it decides on the variables of
\* MiniMax by the provider it ends with.
LEMMA MergeGives ==
  ASSUME NEW file1, NEW minimax, NEW env, NEW cli,
         "provider" \notin DOMAIN minimax
  PROVE  LET merged == Merge(file1, minimax, env, cli)
             native == IF Lower(merged.provider) = "minimax" THEN minimax ELSE Nothing
         IN \A f \in Settings :
              merged[f] = IF f \in DOMAIN cli THEN cli[f]
                          ELSE IF f \in DOMAIN env THEN env[f]
                          ELSE IF f \in DOMAIN native THEN native[f]
                          ELSE IF f \in DOMAIN file1 THEN file1[f]
                          ELSE Defaults[f]
<1> DEFINE merged == Merge(file1, minimax, env, cli)
           early == IF EffectiveProvider(file1, env, cli) = "minimax" THEN minimax ELSE Nothing
<1>1. DOMAIN Defaults = Settings
  BY DEF Defaults, NoConfig
<1>2. "provider" \in Settings
  BY DEF Settings
<1>3. merged = Over(cli, Over(env, Over(early, Over(file1, Defaults))))
  BY DEF Merge
<1>4. "provider" \notin DOMAIN early
  BY DEF Nothing
<1> HIDE DEF merged, early
<1>5. ASSUME NEW f \in Settings
      PROVE  merged[f] = IF f \in DOMAIN cli THEN cli[f]
                         ELSE IF f \in DOMAIN env THEN env[f]
                         ELSE IF f \in DOMAIN early THEN early[f]
                         ELSE IF f \in DOMAIN file1 THEN file1[f]
                         ELSE Defaults[f]
  BY <1>1, <1>3, OverHas, OverHasNot
<1>6. Over(cli, Over(env, Over(file1, Defaults))).provider = merged.provider
  <2>1. Over(cli, Over(env, Over(file1, Defaults))).provider =
          IF "provider" \in DOMAIN cli THEN cli.provider
          ELSE IF "provider" \in DOMAIN env THEN env.provider
          ELSE IF "provider" \in DOMAIN file1 THEN file1.provider
          ELSE Defaults.provider
    BY <1>1, <1>2, OverHas, OverHasNot
  <2> QED
    BY <1>2, <1>4, <1>5, <2>1
<1>7. early = IF Lower(merged.provider) = "minimax" THEN minimax ELSE Nothing
  BY <1>6 DEF early, EffectiveProvider
<1> QED
  BY <1>5, <1>7 DEF merged

LEMMA EnvironmentGives ==
  ASSUME NEW s, NEW f \in Settings
  PROVE  LET env == Restricted(Environment(s), Settings) IN
         /\ f \in DOMAIN env <=> f \in DOMAIN s.env \/ f \in DOMAIN s.legacy
         /\ f \in DOMAIN env => env[f] = IF f \in DOMAIN s.env THEN s.env[f] ELSE s.legacy[f]
<1>1. DOMAIN Environment(s) = DOMAIN s.env \cup DOMAIN s.legacy
  BY OverHasNot DEF Environment
<1>2. f \in DOMAIN Environment(s) =>
        Environment(s)[f] = IF f \in DOMAIN s.env THEN s.env[f] ELSE s.legacy[f]
  BY <1>1, OverHas DEF Environment
<1> QED
  BY <1>1, <1>2 DEF Restricted

\* Each setting of a loaded configuration is that of the first source that has
\* it, for every file, environment and set of flags, and whatever is changed in
\* between: MINIMAX_* settings count for a run that uses MiniMax and no other.
THEOREM MergeFollowsPrecedence == Spec => []MergedAsDocumented
<1>1. NativeInv => MergedAsDocumented
  <2> SUFFICES ASSUME NativeInv, NEW flags \in FlagSets, Load(setup, flags) # NoConfig,
                      NEW f \in Settings
               PROVE  LET c == Load(setup, flags) IN
                      c[f] = First(Sources(setup, flags, c.provider), f)
    BY DEF MergedAsDocumented
  <2> DEFINE path == ConfigPath(setup, flags)
             file1 == IF path = None THEN Nothing ELSE setup.files[path]
             env == Restricted(Environment(setup), Settings)
             c == Load(setup, flags)
             native == IF Lower(c.provider) = "minimax" THEN setup.minimax ELSE Nothing
  <2>1. c = Merge(file1, setup.minimax, env, flags.cli)
    BY DEF Load
  <2>2. Sources(setup, flags, c.provider) =
          <<flags.cli, setup.env, setup.legacy, native, file1, Defaults>>
    BY DEF Sources
  <2>3. "provider" \notin DOMAIN setup.minimax
    BY DEF NativeInv
  <2>4. f \in DOMAIN Defaults
    BY DEF Defaults, NoConfig
  <2> HIDE DEF c, file1, env
  <2>5. c[f] = IF f \in DOMAIN flags.cli THEN flags.cli[f]
               ELSE IF f \in DOMAIN env THEN env[f]
               ELSE IF f \in DOMAIN native THEN native[f]
               ELSE IF f \in DOMAIN file1 THEN file1[f]
               ELSE Defaults[f]
    BY <2>1, <2>3, MergeGives
  <2>6. /\ f \in DOMAIN env <=> f \in DOMAIN setup.env \/ f \in DOMAIN setup.legacy
        /\ f \in DOMAIN env => env[f] = IF f \in DOMAIN setup.env THEN setup.env[f] ELSE setup.legacy[f]
    BY EnvironmentGives DEF env
  <2> HIDE DEF native
  <2>7. c[f] = First(<<flags.cli, setup.env, setup.legacy, native, file1, Defaults>>, f)
    BY <2>4, <2>5, <2>6, FirstGives
  <2> QED
    BY <2>2, <2>7 DEF c
<1> QED
  BY NativeInit, NativeNext, <1>1, PTL DEF Spec

-----------------------------------------------------------------------------
(***************************************************************************)
(* The draft in an answer, for answers of any length.                      *)
(***************************************************************************)
LEMMA Least ==
  ASSUME NEW T \in SUBSET Nat, T # {}
  PROVE  \E n \in T : \A m \in T : n <= m
<1> DEFINE R == {ss \in Nat \X Nat : ss[1] < ss[2]}
<1>1. IsWellFoundedOn(R, Nat)
  BY NatLessThanWellFounded DEF OpToRel
<1>2. \E n \in T : \A m \in T : <<m, n>> \notin R
  <2> HIDE DEF R
  <2> QED
    BY <1>1, WFMin
<1>3. PICK n \in T : \A m \in T : <<m, n>> \notin R
  BY <1>2
<1>4. ASSUME NEW m \in T PROVE n <= m
  <2>1. m \in Nat /\ n \in Nat
    BY <1>3
  <2>2. m < n => <<m, n>> \in R
    BY <2>1
  <2>3. ~(m < n)
    BY <1>3, <2>2
  <2> QED
    BY <2>1, <2>3
<1> QED
  BY <1>4

LEMMA Newest ==
  ASSUME NEW k \in Nat, NEW D \in SUBSET (1..k), D # {}
  PROVE  \E n \in D : \A m \in D : m <= n
<1> DEFINE T == {k - n : n \in D}
<1>1. T \in SUBSET Nat /\ T # {}
  <2>1. \A n \in D : k - n \in Nat
    OBVIOUS
  <2>2. \E n \in D : k - n \in T
    OBVIOUS
  <2> QED
    BY <2>1, <2>2
<1>2. PICK t \in T : \A u \in T : t <= u
  <2> HIDE DEF T
  <2> QED
    BY <1>1, Least
<1>3. PICK n \in D : t = k - n
  BY <1>2
<1>4. ASSUME NEW m \in D PROVE m <= n
  <2>1. t <= k - m
    BY <1>2
  <2> QED
    BY <1>3, <2>1
<1> QED
  BY <1>4

LEMMA NewestIs ==
  ASSUME NEW D \in SUBSET Nat, NEW n \in D, \A m \in D : m <= n
  PROVE  (CHOOSE k \in D : \A m \in D : m <= k) = n
<1> DEFINE k == CHOOSE k \in D : \A m \in D : m <= k
<1>1. k \in D /\ \A m \in D : m <= k
  OBVIOUS
<1> HIDE DEF k
<1>2. k = n
  BY <1>1
<1> QED
  BY <1>2 DEF k

\* A draft that comes after something else is found at the same piece.
LEMMA NewestIsFound ==
  ASSUME NEW S, NEW a \in Seq(S), NEW b \in Seq(S), Decodes(b) # {}
  PROVE  Decodes(a \o b) # {} /\ ExtractDraft(a \o b) = ExtractDraft(b)
<1> DEFINE c == a \o b
<1>1. /\ Len(a) \in Nat /\ Len(b) \in Nat /\ Len(c) = Len(a) + Len(b)
      /\ \A i \in 1..Len(b) : c[Len(a) + i] = b[i]
  OBVIOUS
<1> HIDE DEF c
<1>2. ASSUME NEW i \in 1..Len(b) PROVE i \in Decodes(b) <=> Len(a) + i \in Decodes(c)
  <2>1. /\ Len(a) + i \in 1..Len(c) /\ c[Len(a) + i] = b[i]
        /\ i < Len(b) <=> Len(a) + i < Len(c)
    BY <1>1
  <2>2. i < Len(b) => c[Len(a) + i + 1] = b[i + 1]
    <3>1. i < Len(b) => i + 1 \in 1..Len(b) /\ Len(a) + (i + 1) = Len(a) + i + 1
      BY <1>1
    <3> QED
      BY <1>1, <3>1
  <2> QED
    BY <2>1, <2>2 DEF Decodes
<1>3. PICK n \in Decodes(b) : \A m \in Decodes(b) : m <= n
  <2>1. Decodes(b) \in SUBSET (1..Len(b))
    BY DEF Decodes
  <2> QED
    BY <1>1, <2>1, Newest
<1>4. n \in 1..Len(b) /\ Decodes(b) \subseteq 1..Len(b) /\ Decodes(c) \subseteq 1..Len(c)
  BY DEF Decodes
<1>5. Len(a) + n \in Decodes(c) /\ \A m \in Decodes(c) : m <= Len(a) + n
  <2>1. ASSUME NEW m \in Decodes(c) PROVE m <= Len(a) + n
    <3>1. CASE m <= Len(a)
      BY <1>1, <1>4, <3>1
    <3>2. CASE ~(m <= Len(a))
      <4>1. m - Len(a) \in 1..Len(b) /\ Len(a) + (m - Len(a)) = m
        BY <1>1, <1>4, <3>2
      <4>2. m - Len(a) \in Decodes(b)
        BY <1>2, <4>1
      <4> QED
        BY <1>1, <1>3, <1>4, <4>1, <4>2
    <3> QED
      BY <3>1, <3>2
  <2> QED
    BY <1>2, <1>3, <1>4, <2>1
<1>6. (CHOOSE k \in Decodes(b) : \A m \in Decodes(b) : m <= k) = n
  <2>1. Decodes(b) \in SUBSET Nat
    BY <1>4
  <2> QED
    BY <1>3, <2>1, NewestIs
<1>7. (CHOOSE k \in Decodes(c) : \A m \in Decodes(c) : m <= k) = Len(a) + n
  <2>1. Decodes(c) \in SUBSET Nat
    BY <1>4
  <2> QED
    BY <1>5, <2>1, NewestIs
<1>8. c[Len(a) + n] = b[n]
  BY <1>1, <1>4
<1>9. ExtractDraft(b) = IF b[n] \in Drafts THEN b[n] ELSE Joined
  BY <1>3, <1>6 DEF ExtractDraft
<1>10. ExtractDraft(c) = IF b[n] \in Drafts THEN b[n] ELSE Joined
  BY <1>5, <1>7, <1>8 DEF ExtractDraft
<1> QED
  BY <1>5, <1>9, <1>10 DEF c

\* What Stripped has read after each piece.
Nobody == [out |-> <<>>, held |-> <<>>]

Reading(a, read, n) ==
  read = [k \in 0..n |-> IF k = 0 THEN Nobody ELSE StripStep(read[k - 1], a[k])]

\* What holds at 0 and passes on from each number to the next one.
LEMMA Rising ==
  ASSUME NEW T \in SUBSET Nat, NEW m \in Nat, 0 \in T,
         \A n \in Nat : n < m /\ n \in T => n + 1 \in T
  PROVE  m \in T
<1> SUFFICES ASSUME m \notin T PROVE FALSE
  OBVIOUS
<1> DEFINE D == {n \in Nat : n <= m /\ n \notin T}
<1>1. PICK n \in D : \A k \in D : n <= k
  <2>1. D \in SUBSET Nat /\ D # {}
    OBVIOUS
  <2> HIDE DEF D
  <2> QED
    BY <2>1, Least
<1>2. n \in Nat /\ n # 0 /\ n <= m /\ n \notin T
  BY <1>1
<1>3. n - 1 \in Nat /\ n - 1 < m /\ (n - 1) + 1 = n
  BY <1>2
<1>4. n - 1 \in T
  BY <1>1, <1>2, <1>3
<1> QED
  BY <1>2, <1>3, <1>4

LEMMA ReadingExists ==
  ASSUME NEW a, NEW m \in Nat
  PROVE  \E read : Reading(a, read, m)
<1> DEFINE T == {n \in Nat : \E read : Reading(a, read, n)}
<1>1. 0 \in T
  <2>1. Reading(a, [k \in 0..0 |-> Nobody], 0)
    BY DEF Reading
  <2> QED
    BY <2>1
<1>2. ASSUME NEW n \in Nat, n \in T PROVE n + 1 \in T
  <2>1. PICK read : Reading(a, read, n)
    BY <1>2
  <2> DEFINE next == [k \in 0..n + 1 |->
                        IF k = n + 1 THEN StripStep(read[n], a[n + 1]) ELSE read[k]]
  <2>2. ASSUME NEW k \in 0..n + 1
        PROVE  next[k] = IF k = 0 THEN Nobody ELSE StripStep(next[k - 1], a[k])
    <3>1. CASE k = n + 1
      BY <3>1
    <3>2. CASE k \in 0..n
      <4>1. read[k] = IF k = 0 THEN Nobody ELSE StripStep(read[k - 1], a[k])
        BY <2>1, <3>2 DEF Reading
      <4>2. next[k] = read[k] /\ (k # 0 => next[k - 1] = read[k - 1])
        BY <3>2
      <4> QED
        BY <4>1, <4>2
    <3> QED
      BY <3>1, <3>2
  <2>3. DOMAIN next = 0..n + 1 /\ next = [k \in 0..n + 1 |-> next[k]]
    OBVIOUS
  <2> HIDE DEF next
  <2>4. next = [k \in 0..n + 1 |-> IF k = 0 THEN Nobody ELSE StripStep(next[k - 1], a[k])]
    BY <2>2, <2>3
  <2> QED
    BY <2>4 DEF Reading
<1>3. T \in SUBSET Nat
  OBVIOUS
<1> HIDE DEF T
<1>4. m \in T
  BY <1>1, <1>2, <1>3, Rising
<1> QED
  BY <1>4 DEF T

LEMMA StrippedReads ==
  ASSUME NEW a, Len(a) \in Nat
  PROVE  \E read : /\ read[0] = Nobody
                   /\ \A n \in 1..Len(a) : read[n] = StripStep(read[n - 1], a[n])
                   /\ Stripped(a) = read[Len(a)].out \o read[Len(a)].held
<1> DEFINE read == CHOOSE f :
             f = [n \in 0..Len(a) |-> IF n = 0 THEN Nobody ELSE StripStep(f[n - 1], a[n])]
<1>1. read = [n \in 0..Len(a) |-> IF n = 0 THEN Nobody ELSE StripStep(read[n - 1], a[n])]
  BY ReadingExists DEF Reading
<1>2. Stripped(a) = read[Len(a)].out \o read[Len(a)].held
  BY DEF Stripped, Nobody
<1> HIDE DEF read
<1>3. read[0] = Nobody /\ \A n \in 1..Len(a) : read[n] = StripStep(read[n - 1], a[n])
  BY <1>1
<1> QED
  BY <1>2, <1>3

LEMMA StepReads ==
  ASSUME NEW out, NEW held, NEW piece
  PROVE  StripStep([out |-> out, held |-> held], piece) =
           IF held = <<>>
             THEN IF piece = "open" THEN [out |-> out, held |-> <<piece>>]
                                    ELSE [out |-> Append(out, piece), held |-> held]
             ELSE IF piece = "close" THEN [out |-> out, held |-> <<>>]
                                     ELSE [out |-> out, held |-> Append(held, piece)]
<1> DEFINE s == [out |-> out, held |-> held]
<1>1. s.held = held /\ s.out = out
  OBVIOUS
<1>2. ASSUME NEW x PROVE [s EXCEPT !.held = x] = [out |-> out, held |-> x]
  OBVIOUS
<1>3. ASSUME NEW x PROVE [s EXCEPT !.out = x] = [out |-> x, held |-> held]
  OBVIOUS
<1> HIDE DEF s
<1>4. [s EXCEPT !.out = Append(@, piece)] = [out |-> Append(out, piece), held |-> held]
  BY <1>1, <1>3
<1>5. [s EXCEPT !.held = Append(@, piece)] = [out |-> out, held |-> Append(held, piece)]
  BY <1>1, <1>2
<1> QED
  BY <1>1, <1>2, <1>4, <1>5 DEF StripStep, s

LEMMA Pair ==
  ASSUME NEW x, NEW y
  PROVE  Append(<<x>>, y) = <<x, y>>
<1>1. <<x>> \in Seq({x, y}) /\ <<x, y>> \in Seq({x, y}) /\ Len(<<x>>) = 1
  OBVIOUS
<1>2. Append(<<x>>, y) \in Seq({x, y}) /\ Len(Append(<<x>>, y)) = 2
  BY <1>1
<1>3. Append(<<x>>, y)[1] = x /\ Append(<<x>>, y)[2] = y
  BY <1>1
<1>4. Len(<<x, y>>) = 2 /\ <<x, y>>[1] = x /\ <<x, y>>[2] = y
  OBVIOUS
<1>5. \A i \in 1..2 : Append(<<x>>, y)[i] = <<x, y>>[i]
  BY <1>3, <1>4
<1> QED
  BY <1>1, <1>2, <1>4, <1>5, SeqEqual

\* A draft with reasoning in its middle, once the reasoning is removed.
LEMMA JoinedAgain ==
  ASSUME NEW r \in Seq(Pieces)
  PROVE  LET thought == <<"open">> \o r \o <<"close">> IN
         Stripped(<<"head">> \o thought \o <<"tail">>) = <<"head", "tail">>
<1> DEFINE a == <<"head">> \o (<<"open">> \o r \o <<"close">>) \o <<"tail">>
           l == Len(r)
<1>1. /\ l \in Nat /\ Len(a) = l + 4
      /\ a[1] = "head" /\ a[2] = "open" /\ a[l + 3] = "close" /\ a[l + 4] = "tail"
      /\ \A k \in 1..l : a[k + 2] = r[k]
  OBVIOUS
<1> HIDE DEF a
<1>2. \A k \in 1..l : a[k + 2] # "open" /\ a[k + 2] # "close"
  <2>1. \A k \in 1..l : r[k] \in Pieces
    OBVIOUS
  <2> QED
    BY <1>1, <2>1, PlanDraftAssumption
<1> HIDE DEF l
<1>3. PICK read : /\ read[0] = Nobody
                  /\ \A n \in 1..Len(a) : read[n] = StripStep(read[n - 1], a[n])
                  /\ Stripped(a) = read[Len(a)].out \o read[Len(a)].held
  <2>1. Len(a) \in Nat
    BY <1>1
  <2> QED
    BY <2>1, StrippedReads
<1>4. /\ read[1] = StripStep(read[0], a[1]) /\ read[2] = StripStep(read[1], a[2])
      /\ read[l + 3] = StripStep(read[l + 2], a[l + 3])
      /\ read[l + 4] = StripStep(read[l + 3], a[l + 4])
  <2>1. /\ 1 \in 1..Len(a) /\ 2 \in 1..Len(a) /\ l + 3 \in 1..Len(a) /\ l + 4 \in 1..Len(a)
        /\ 1 - 1 = 0 /\ 2 - 1 = 1 /\ (l + 3) - 1 = l + 2 /\ (l + 4) - 1 = l + 3
    BY <1>1
  <2> QED
    BY <1>3, <2>1
<1>5. read[1] = [out |-> <<"head">>, held |-> <<>>]
  <2>1. StripStep([out |-> <<>>, held |-> <<>>], "head") =
          [out |-> Append(<<>>, "head"), held |-> <<>>]
    BY StepReads
  <2>2. Append(<<>>, "head") = <<"head">>
    OBVIOUS
  <2>3. read[1] = StripStep([out |-> <<>>, held |-> <<>>], "head")
    BY <1>1, <1>3, <1>4 DEF Nobody
  <2> QED
    BY <2>1, <2>2, <2>3
<1>6. read[2] = [out |-> <<"head">>, held |-> <<"open">>]
  <2>1. StripStep([out |-> <<"head">>, held |-> <<>>], "open") =
          [out |-> <<"head">>, held |-> <<"open">>]
    BY StepReads
  <2>2. read[2] = StripStep([out |-> <<"head">>, held |-> <<>>], "open")
    BY <1>1, <1>4, <1>5
  <2> QED
    BY <2>1, <2>2
<1> DEFINE P == {a[n] : n \in 1..Len(a)} \cup {"open"}
           Inner == {s \in [out : {<<"head">>}, held : Seq(P)] : s.held # <<>>}
           T == {k \in Nat : read[k + 2] \in Inner}
<1>7. 0 \in T /\ T \in SUBSET Nat
  <2>1. <<"open">> \in Seq(P) /\ <<"open">> # <<>>
    OBVIOUS
  <2> HIDE DEF P
  <2>2. read[2] \in Inner
    BY <1>6, <2>1
  <2> HIDE DEF Inner
  <2> QED
    BY <2>2
<1>8. ASSUME NEW k \in Nat, k < l, k \in T PROVE k + 1 \in T
  <2>1. /\ k + 1 \in 1..l /\ (k + 1) + 2 \in 1..Len(a) /\ ((k + 1) + 2) - 1 = k + 2
    BY <1>1, <1>8
  <2> DEFINE s == read[k + 2]
             piece == a[(k + 1) + 2]
  <2>2. read[(k + 1) + 2] = StripStep(s, piece)
    BY <1>3, <2>1
  <2>3. piece # "close" /\ piece \in P
    BY <1>2, <2>1
  <2>4. s \in Inner
    BY <1>8
  <2> HIDE DEF s, piece, P
  <2>5. /\ s \in [out : {<<"head">>}, held : Seq(P)] /\ s.held # <<>> /\ s.held \in Seq(P)
        /\ StripStep(s, piece) = [s EXCEPT !.held = Append(s.held, piece)]
    BY <2>3, <2>4 DEF StripStep
  <2>6. Append(s.held, piece) \in Seq(P) /\ Append(s.held, piece) # <<>>
    BY <2>3, <2>5
  <2>7. StripStep(s, piece) \in Inner
    BY <2>5, <2>6
  <2> HIDE DEF Inner
  <2> QED
    BY <2>2, <2>7
<1>9. read[l + 2].held # <<>> /\ read[l + 2] \in [out : {<<"head">>}, held : Seq(P)]
  <2> HIDE DEF T
  <2>1. l \in T
    BY <1>1, <1>7, <1>8, Rising
  <2> QED
    BY <2>1 DEF T
<1> HIDE DEF P
<1>10. read[l + 3] = [out |-> <<"head">>, held |-> <<>>]
  <2> DEFINE held == read[l + 2].held
  <2>1. read[l + 2] = [out |-> <<"head">>, held |-> held] /\ held # <<>>
    BY <1>9
  <2> HIDE DEF held
  <2>2. StripStep([out |-> <<"head">>, held |-> held], "close") =
          [out |-> <<"head">>, held |-> <<>>]
    BY <2>1, StepReads
  <2>3. read[l + 3] = StripStep([out |-> <<"head">>, held |-> held], "close")
    BY <1>1, <1>4, <2>1
  <2> QED
    BY <2>2, <2>3
<1>11. read[l + 4] = [out |-> <<"head", "tail">>, held |-> <<>>]
  <2>1. StripStep([out |-> <<"head">>, held |-> <<>>], "tail") =
          [out |-> Append(<<"head">>, "tail"), held |-> <<>>]
    BY StepReads
  <2>2. Append(<<"head">>, "tail") = <<"head", "tail">>
    BY Pair
  <2>3. read[l + 4] = StripStep([out |-> <<"head">>, held |-> <<>>], "tail")
    BY <1>1, <1>4, <1>10
  <2> QED
    BY <2>1, <2>2, <2>3
<1>12. Stripped(a) = <<"head", "tail">>
  <2> DEFINE d == <<"head", "tail">>
  <2>1. read[Len(a)].out = d /\ read[Len(a)].held = <<>>
    <3>1. read[l + 4] = [out |-> d, held |-> <<>>]
      BY <1>11
    <3>2. read[Len(a)] = read[l + 4]
      BY <1>1
    <3> HIDE DEF d
    <3> QED
      BY <3>1, <3>2
  <2>2. <<"head", "tail">> \o <<>> = <<"head", "tail">>
    OBVIOUS
  <2>3. Stripped(a) = read[Len(a)].out \o read[Len(a)].held
    BY <1>3
  <2> QED
    BY <2>1, <2>2, <2>3
<1> QED
  BY <1>12 DEF a

\* Of an answer that reasons first, however long, and whatever drafts the
\* reasoning holds, and of one whose only draft a block of reasoning interrupts,
\* parsePlanDraft takes the draft a reader would take.
THEOREM DraftIsFound == \A r, b \in Seq(Pieces) : FindsDraft(r, b)
<1> SUFFICES ASSUME NEW r \in Seq(Pieces), NEW b \in Seq(Pieces)
             PROVE  FindsDraft(r, b)
  OBVIOUS
<1> DEFINE S == Pieces \cup {"open", "close", "head", "tail"}
           thought == <<"open">> \o r \o <<"close">>
<1>1. thought \in Seq(S) /\ b \in Seq(S)
  OBVIOUS
<1>2. ASSUME ExtractDraft(b) # NoDraft
      PROVE  ParsePlanDraft(thought \o b) = ExtractDraft(b)
  <2> HIDE DEF S, thought
  <2>1. Decodes(b) # {}
    BY <1>2 DEF ExtractDraft
  <2>2. ExtractDraft(thought \o b) = ExtractDraft(b)
    BY <1>1, <2>1, NewestIsFound
  <2> QED
    BY <1>2, <2>2 DEF ParsePlanDraft
<1>3. ASSUME Decodes(r) = {}
      PROVE  ParsePlanDraft(<<"head">> \o thought \o <<"tail">>) = Joined
  <2> DEFINE a == <<"head">> \o thought \o <<"tail">>
             l == Len(r)
  <2>1. /\ l \in Nat /\ Len(a) = l + 4
        /\ a[1] = "head" /\ a[2] = "open" /\ a[l + 3] = "close" /\ a[l + 4] = "tail"
        /\ \A k \in 1..l : a[k + 2] = r[k]
    OBVIOUS
  <2> HIDE DEF a
  <2>2. ASSUME NEW i \in 1..Len(a) PROVE i \notin Decodes(a)
    <3>1. CASE i \in {1, 2, l + 3, l + 4}
      BY <2>1, <3>1, PlanDraftAssumption DEF Decodes
    <3>2. CASE i \notin {1, 2, l + 3, l + 4}
      <4>1. i - 2 \in 1..l /\ (i - 2) + 2 = i
        BY <2>1, <3>2
      <4>2. a[i] = r[i - 2] /\ i - 2 \notin Decodes(r)
        BY <1>3, <2>1, <4>1
      <4>3. a[i] \notin Drafts
        BY <4>1, <4>2 DEF Decodes
      <4>4. ASSUME a[i] = "head", a[i + 1] = "tail" PROVE FALSE
        <5>1. CASE i - 2 = l
          BY <2>1, <4>4, <5>1
        <5>2. CASE i - 2 < l
          <6>1. (i - 2) + 1 \in 1..l /\ ((i - 2) + 1) + 2 = i + 1
            BY <2>1, <4>1, <5>2
          <6>2. a[i + 1] = r[(i - 2) + 1]
            BY <2>1, <6>1
          <6> QED
            BY <4>1, <4>2, <4>4, <5>2, <6>2 DEF Decodes
        <5> QED
          BY <2>1, <4>1, <5>1, <5>2
      <4> QED
        BY <4>3, <4>4 DEF Decodes
    <3> QED
      BY <3>1, <3>2
  <2>3. ExtractDraft(a) = NoDraft
    BY <2>2 DEF ExtractDraft, Decodes
  <2>4. Stripped(a) = <<"head", "tail">>
    BY JoinedAgain DEF a
  <2> DEFINE d == <<"head", "tail">>
  <2>5. Len(d) = 2 /\ d[1] = "head" /\ d[2] = "tail"
    OBVIOUS
  <2> HIDE DEF d
  <2>6. Decodes(d) = {1}
    BY <2>5, PlanDraftAssumption DEF Decodes
  <2>7. ExtractDraft(d) = Joined
    <3>1. (CHOOSE k \in Decodes(d) : \A m \in Decodes(d) : m <= k) = 1
      BY <2>6, NewestIs
    <3> QED
      BY <2>5, <2>6, <3>1, PlanDraftAssumption DEF ExtractDraft
  <2> QED
    BY <2>3, <2>4, <2>7 DEF ParsePlanDraft, d, a
<1> QED
  BY <1>2, <1>3 DEF FindsDraft
=============================================================================
