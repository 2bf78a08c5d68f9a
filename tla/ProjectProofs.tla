--------------------------- MODULE ProjectProofs ----------------------------
(***************************************************************************)
(* Theorems about Project for every set of components, texts and starters: *)
(* Go and build.mjs agree on the mode of every well-formed text, what the  *)
(* commands leave in dist can be served and embedded at every moment, and  *)
(* a server of whole outputs shows its components as declared.             *)
(***************************************************************************)
EXTENDS Project, FiniteSetTheorems, TLAPS

(***************************************************************************)
(* Reading modes                                                           *)
(***************************************************************************)
LEMMA MinOfOne == \A k \in Nat : Min({k}) = k
  BY DEF Min

\* The lines that are looked at are few, so one of them is the first.
LEMMA FirstLine ==
    ASSUME NEW S \in SUBSET (1..5), S # {}
    PROVE  Min(S) \in S
  <1>1. \E m \in S : \A j \in S : m <= j
    <2>1. CASE 1 \in S
      BY <2>1
    <2>2. CASE 1 \notin S /\ 2 \in S
      BY <2>2
    <2>3. CASE 1 \notin S /\ 2 \notin S /\ 3 \in S
      BY <2>3
    <2>4. CASE 1 \notin S /\ 2 \notin S /\ 3 \notin S /\ 4 \in S
      BY <2>4
    <2>5. CASE 1 \notin S /\ 2 \notin S /\ 3 \notin S /\ 4 \notin S
      <3>1. \A j \in S : j = 5
        BY <2>5
      <3>2. 5 \in S
        BY <3>1
      <3>. QED  BY <3>1, <3>2
    <2>. QED  BY <2>1, <2>2, <2>3, <2>4, <2>5
  <1>. QED  BY <1>1 DEF Min

LEMMA MarksAreNat ==
    ASSUME NEW S, NEW line \in Seq(S), NEW k \in Marks(line)
    PROVE  k \in Nat
  BY DEF Marks

\* The two readers see the same in a line with one mark and a blank after it.
LEMMA LinesAgree ==
    ASSUME NEW line \in Seq(Words), ScanLine(line) # "error",
           \A k \in Marks(line) :
               /\ Marks(line) = {k}
               /\ Following(line, k) \in Modes =>
                    k + 1 \in DOMAIN line /\ line[k + 1] = " "
    PROVE  ScanLine(line) = MatchMode(line)
  <1>0. ScanLine(line) = ExtractMode(line)
    BY DEF ScanLine
  <1>1. CASE Marks(line) = {}
    BY <1>0, <1>1 DEF ExtractMode, MatchMode
  <1>2. ASSUME NEW k \in Marks(line) PROVE ExtractMode(line) = MatchMode(line)
    <2>1. Marks(line) = {k} /\ k \in Nat
      <3>1. Marks(line) = {k}
        OBVIOUS
      <3>. QED  BY <3>1, MarksAreNat
    <2>2. Min(Marks(line)) = k
      BY <2>1, MinOfOne
    <2>3. CASE Following(line, k) \in Modes
      <3>1. {j \in Marks(line) : /\ j + 1 \in DOMAIN line /\ line[j + 1] = " "
                                 /\ Following(line, j) \in Modes} = {k}
        BY <2>1, <2>3
      <3>. QED  BY <2>1, <2>2, <2>3, <3>1, MinOfOne DEF ExtractMode, MatchMode
    <2>4. CASE Following(line, k) \notin Modes
      <3>1. {j \in Marks(line) : /\ j + 1 \in DOMAIN line /\ line[j + 1] = " "
                                 /\ Following(line, j) \in Modes} = {}
        BY <2>1, <2>4
      <3>. QED  BY <2>1, <2>2, <2>4, <3>1 DEF ExtractMode, MatchMode
    <2>. QED  BY <2>3, <2>4
  <1>. QED  BY <1>0, <1>1, <1>2

LEMMA ReadersAgree ==
    ASSUME NEW text \in Seq(Seq(Words)), WellFormed(text)
    PROVE  ReadMode(text) = BundleMode(text)
  <1> DEFINE hits == {k \in DOMAIN text : k <= SearchLines /\ ScanLine(text[k]) # None}
  <1>1. \A k \in DOMAIN text : k <= SearchLines => ScanLine(text[k]) = MatchMode(text[k])
    <2> SUFFICES ASSUME NEW k \in DOMAIN text, k <= SearchLines
                 PROVE  ScanLine(text[k]) = MatchMode(text[k])
      OBVIOUS
    <2>1. text[k] \in Seq(Words)
      OBVIOUS
    <2>. QED  BY <2>1, LinesAgree DEF WellFormed
  <1>2. hits = {k \in DOMAIN text : k <= SearchLines /\ MatchMode(text[k]) # None}
    BY <1>1
  <1>3. hits # {} => Min(hits) \in DOMAIN text /\ Min(hits) <= SearchLines
    <2>1. hits \subseteq 1..5
      BY DEF SearchLines
    <2>. QED  BY <2>1, FirstLine
  <1>. QED  BY <1>1, <1>2, <1>3 DEF ReadMode, BundleMode
-----------------------------------------------------------------------------
(***************************************************************************)
(* The sources: functions from components to texts                         *)
(***************************************************************************)
SourcesTyped == \A c \in DOMAIN src : src[c] \in Seq(Seq(Words))

LEMMA HeaderLine ==
    ASSUME NEW S, NEW a \in S, NEW b \in S, NEW c \in S, NEW d \in S
    PROVE  <<<<a, b, c, b, d>>>> \in Seq(Seq(S))
  <1>1. <<a, b, c, b, d>> \in Seq(S)
    OBVIOUS
  <1>. QED  BY <1>1

LEMMA PutTyped ==
    ASSUME SourcesTyped, NEW c, NEW text \in Seq(Seq(Words)), Put(c, text)
    PROVE  SourcesTyped'
  BY DEF SourcesTyped, Put

LEMMA SourcesStep == SourcesTyped /\ [Next]_vars => SourcesTyped'
  <1> SUFFICES ASSUME SourcesTyped, [Next]_vars PROVE SourcesTyped'
    OBVIOUS
  <1>1. ASSUME NEW c \in Components, Edit(c) PROVE SourcesTyped'
    <2>1. ASSUME NEW text \in Texts, Put(c, text) PROVE SourcesTyped'
      BY <2>1, PutTyped, ProjectAssumption
    <2>2. CASE src' = [d \in DOMAIN src \ {c} |-> src[d]]
      BY <2>2 DEF SourcesTyped
    <2>. QED  BY <1>1, <2>1, <2>2 DEF Edit
  <1>2. ASSUME NEW c \in Components, NEW mode \in Modes, Generate(c, mode) PROVE SourcesTyped'
    <2>1. <<<<"//", " ", "@mode", " ", mode>>>> \in Seq(Seq(Words))
      <3>1. "//" \in Words /\ " " \in Words /\ "@mode" \in Words /\ mode \in Words
        BY ProjectAssumption
      <3>. QED  BY <3>1, HeaderLine
    <2>. QED  BY <1>2, <2>1, PutTyped DEF Generate
  <1>3. CASE InitFile
    <2>1. ASSUME NEW c \in DOMAIN Starters, Put(c, Starters[c]) PROVE SourcesTyped'
      BY <2>1, PutTyped, ProjectAssumption
    <2>2. CASE UNCHANGED src
      BY <2>2 DEF SourcesTyped
    <2>. QED  BY <1>3, <2>1, <2>2 DEF InitFile
  <1>4. CASE InitStarts \/ InitPage \/ InitServer \/ InitEnds \/ RunBuild \/ Fails
    BY <1>4 DEF SourcesTyped, InitStarts, InitPage, InitServer, InitEnds, RunBuild, BuildStarts,
                BuildServer, BuildClient, BuildPage, BuildGo, Fails
  <1>5. CASE DevStarts \/ DevStops \/ WatchServer \/ WatchClient \/ DevRestart \/ Clean
             \/ Update \/ Start \/ Stop
    BY <1>5 DEF SourcesTyped, DevStarts, DevStops, WatchServer, WatchClient, DevRestart, Clean,
                Update, Start, Stop
  <1>6. CASE UNCHANGED vars
    BY <1>6 DEF SourcesTyped, vars
  <1>. QED  BY <1>1, <1>2, <1>3, <1>4, <1>5, <1>6 DEF Next, RunInit

\* The mode that Go renders a component in is the mode that build.mjs bundles
\* it for, for any components and any texts with at most one annotation a line
\* and a blank in it, whatever is edited, generated and scaffolded.
THEOREM ModesAgree == Spec => []DiscoveryAgrees
  <1>1. Init => SourcesTyped
    BY DEF Init, Nothing, SourcesTyped
  <1>2. SourcesTyped => DiscoveryAgrees
    BY ReadersAgree DEF SourcesTyped, DiscoveryAgrees
  <1>. QED  BY <1>1, <1>2, SourcesStep, PTL DEF Spec
-----------------------------------------------------------------------------
(***************************************************************************)
(* What the commands leave in dist.  Between its steps a build relies on   *)
(* the entry that its client build reported, and init on what it has       *)
(* written before; nothing else removes files while they run.              *)
(***************************************************************************)
Complete(d) ==
    \A page \in d.page : page.hashed \subseteq d.hashed /\ (page.plain => d.plain # {})

Shape == DOMAIN dist = {"ssr", "hashed", "plain", "page"}

AllComplete ==
    /\ Complete(dist)
    /\ \A b \in binary : Complete(b.dist)
    /\ \A s \in server : Complete(s.binary.dist)

Reported ==
    /\ metafile \subseteq dist.hashed
    /\ cmd # "build page" => metafile = {}

Written ==
    /\ initialised \in BOOLEAN
    /\ cmd \in {"init ssr", "init files"} => dist.page # {}
    /\ cmd = "init files" => dist.ssr # {}
    /\ initialised = TRUE => dist.page # {} /\ dist.ssr # {}

DistInv == Shape /\ AllComplete /\ Reported /\ Written

LEMMA DistInit == Init => DistInv
  <1> SUFFICES ASSUME Init PROVE DistInv
    OBVIOUS
  <1>1. Shape
    BY DEF Init, Shape, NoDist
  <1>2. AllComplete
    BY DEF Init, AllComplete, Complete, NoDist
  <1>3. Reported
    BY DEF Init, Reported, NoDist
  <1>4. Written
    BY DEF Init, Written
  <1>. QED  BY <1>1, <1>2, <1>3, <1>4 DEF DistInv

\* The watcher leaves the bundle plain and a page that loads it if there is one,
\* if it writes one.
WatcherWrites(plain) ==
    /\ dist.plain # {} => plain # {}
    /\ \/ dist' = [dist EXCEPT !.plain = plain]
       \/ dist' = [dist EXCEPT !.plain = plain,
                               !.page = {[hashed |-> dist.hashed, plain |-> plain # {}]}]

\* The steps that write one part of dist, and the files they leave.
Rewrites ==
    \/ dist' = [dist EXCEPT !.page = {NoScripts}]
    \/ \E p : dist' = [dist EXCEPT !.ssr = {p}]
    \/ \E r : dist' = [dist EXCEPT !.hashed = @ \cup {r}]
    \/ dist' = [dist EXCEPT !.page = {PageScripts(metafile)}]
    \/ \E r : WatcherWrites(r)
    \/ dist' = NoDist
    \/ UNCHANGED dist

LEMMA WatcherRewrites ==
    ASSUME Shape, WatchClient
    PROVE  \E r : WatcherWrites(r)
  <1>1. PICK plain : /\ dist.plain # {} => plain # {}
                     /\ dist' = Injected([dist EXCEPT !.plain = plain],
                                         [hashed |-> dist.hashed, plain |-> plain # {}])
    BY DEF WatchClient
  <1>2. WatcherWrites(plain)
    BY <1>1 DEF WatcherWrites, Injected, Shape
  <1>. QED  BY <1>2

LEMMA StepRewrites == Shape /\ [Next]_vars => Rewrites
  <1> USE DEF Rewrites
  <1>1. ASSUME NEW c \in Components, Edit(c) \/ \E mode \in Modes : Generate(c, mode)
        PROVE  UNCHANGED dist
    BY <1>1 DEF Edit, Generate
  <1>2. InitPage => dist' = [dist EXCEPT !.page = {NoScripts}]
    BY DEF InitPage
  <1>3. InitServer => dist' = [dist EXCEPT !.ssr = {Placeholder}]
    BY DEF InitServer, PlaceholderFor
  <1>4. BuildServer \/ WatchServer => \E p : dist' = [dist EXCEPT !.ssr = {p}]
    BY DEF BuildServer, WatchServer
  <1>5. BuildClient => \E r : dist' = [dist EXCEPT !.hashed = @ \cup {r}]
    BY DEF BuildClient, WithEntry
  <1>6. BuildPage => dist' = [dist EXCEPT !.page = {PageScripts(metafile)}] \/ UNCHANGED dist
    BY DEF BuildPage, Injected
  <1>7. Shape /\ WatchClient => \E r : WatcherWrites(r)
    BY WatcherRewrites
  <1>8. Clean => dist' = NoDist
    BY DEF Clean
  <1>9. InitStarts \/ InitFile \/ InitEnds \/ Fails \/ BuildStarts \/ BuildGo \/ UNCHANGED vars
          => UNCHANGED dist
    BY DEF InitStarts, InitFile, InitEnds, Fails, BuildStarts, BuildGo, vars
  <1>10. DevStarts \/ DevStops \/ DevRestart \/ Update \/ Start \/ Stop => UNCHANGED dist
    BY DEF DevStarts, DevStops, DevRestart, Update, Start, Stop
  <1>. QED  BY <1>1, <1>2, <1>3, <1>4, <1>5, <1>6, <1>7, <1>8, <1>9, <1>10 DEF Next, RunInit, RunBuild

LEMMA ShapeStep == Shape /\ Rewrites => Shape'
  BY DEF Shape, Rewrites, WatcherWrites, NoDist

LEMMA DistCompleteStep ==
    ASSUME Shape, Complete(dist), metafile \subseteq dist.hashed, Rewrites
    PROVE  Complete(dist)'
  <1> USE DEF Shape, Complete
  <1>1. CASE dist' = [dist EXCEPT !.page = {NoScripts}]
    BY <1>1 DEF NoScripts
  <1>2. CASE \E p : dist' = [dist EXCEPT !.ssr = {p}]
    BY <1>2
  <1>3. CASE \E r : dist' = [dist EXCEPT !.hashed = @ \cup {r}]
    BY <1>3
  <1>4. CASE dist' = [dist EXCEPT !.page = {PageScripts(metafile)}]
    BY <1>4 DEF PageScripts
  <1>5. ASSUME NEW r, WatcherWrites(r) PROVE Complete(dist)'
    <2>1. dist.plain # {} => r # {}
      BY <1>5 DEF WatcherWrites
    <2>2. CASE dist' = [dist EXCEPT !.plain = r]
      <3>1. dist'.page = dist.page /\ dist'.hashed = dist.hashed /\ dist'.plain = r
        BY <2>2
      <3>. QED  BY <2>1, <3>1
    <2>3. CASE dist' = [dist EXCEPT !.plain = r,
                                    !.page = {[hashed |-> dist.hashed, plain |-> r # {}]}]
      <3> DEFINE page == [hashed |-> dist.hashed, plain |-> r # {}]
      <3>1. dist'.page = {page} /\ dist'.hashed = dist.hashed /\ dist'.plain = r
        BY <2>3
      <3>2. page.hashed = dist.hashed /\ page.plain = (r # {})
        OBVIOUS
      <3> HIDE DEF page
      <3>. QED  BY <3>1, <3>2
    <2>. QED  BY <1>5, <2>2, <2>3 DEF WatcherWrites
  <1>6. CASE dist' = NoDist
    BY <1>6 DEF NoDist
  <1>. QED  BY <1>1, <1>2, <1>3, <1>4, <1>5, <1>6 DEF Rewrites

\* A binary is linked from the sources and outputs at hand, or one that was before.
LEMMA LinkedStep ==
    ASSUME [Next]_vars
    PROVE  /\ \A b \in binary' : b \in binary \/ b = Embedded
           /\ \A s \in server' : s \in server \/ s.binary = Embedded \/ s.binary \in binary
  <1>1. ASSUME NEW c \in Components, Edit(c) \/ \E mode \in Modes : Generate(c, mode)
        PROVE  UNCHANGED <<binary, server>>
    BY <1>1 DEF Edit, Generate
  <1>2. CASE RunInit \/ Fails \/ UNCHANGED vars
    BY <1>2 DEF RunInit, InitStarts, InitPage, InitServer, InitFile, InitEnds, Fails, vars
  <1>3. CASE RunBuild
    BY <1>3 DEF RunBuild, BuildStarts, BuildServer, BuildClient, BuildPage, BuildGo
  <1>4. CASE DevStarts \/ DevStops \/ WatchServer \/ WatchClient \/ Clean \/ Update \/ Stop
    BY <1>4 DEF DevStarts, DevStops, WatchServer, WatchClient, Clean, Update, Stop
  <1>5. CASE DevRestart
    BY <1>5 DEF DevRestart
  <1>6. CASE Start
    BY <1>6 DEF Start
  <1>. QED  BY <1>1, <1>2, <1>3, <1>4, <1>5, <1>6 DEF Next

LEMMA ReportedStep == Shape /\ Reported /\ [Next]_vars => Reported'
  <1> SUFFICES ASSUME Shape, Reported, [Next]_vars PROVE Reported'
    OBVIOUS
  <1> USE DEF Shape, Reported
  <1>1. ASSUME NEW c \in Components, Edit(c) \/ \E mode \in Modes : Generate(c, mode)
        PROVE  Reported'
    BY <1>1 DEF Edit, Generate
  <1>2. CASE InitStarts \/ InitFile \/ InitEnds \/ Fails \/ UNCHANGED vars
    BY <1>2 DEF InitStarts, InitFile, InitEnds, Fails, vars
  <1>3. CASE BuildStarts \/ BuildServer \/ BuildPage \/ BuildGo
    BY <1>3 DEF BuildStarts, BuildServer, BuildPage, BuildGo, Injected
  <1>4. CASE BuildClient
    BY <1>4 DEF BuildClient, WithEntry
  <1>5. CASE DevStarts \/ DevStops \/ DevRestart \/ Update \/ Start \/ Stop
    BY <1>5 DEF DevStarts, DevStops, DevRestart, Update, Start, Stop
  <1>6. CASE WatchServer \/ WatchClient
    BY <1>6 DEF WatchServer, WatchClient, Injected
  <1>7. CASE Clean
    BY <1>7 DEF Clean, NoDist
  <1>8. CASE InitPage \/ InitServer
    BY <1>8 DEF InitPage, InitServer
  <1>. QED  BY <1>1, <1>2, <1>3, <1>4, <1>5, <1>6, <1>7, <1>8 DEF Next, RunInit, RunBuild

LEMMA WrittenStep == Shape /\ Written /\ [Next]_vars => Written'
  <1> SUFFICES ASSUME Shape, Written, [Next]_vars PROVE Written'
    OBVIOUS
  <1> USE DEF Shape, Written
  <1>1. ASSUME NEW c \in Components, Edit(c) \/ \E mode \in Modes : Generate(c, mode)
        PROVE  Written'
    BY <1>1 DEF Edit, Generate
  <1>2. CASE InitStarts \/ InitFile \/ InitEnds \/ Fails \/ UNCHANGED vars
    BY <1>2 DEF InitStarts, InitFile, InitEnds, Fails, vars
  <1>3. CASE InitPage
    BY <1>3 DEF InitPage
  <1>4. CASE InitServer
    BY <1>4 DEF InitServer, PlaceholderFor
  <1>5. CASE BuildStarts \/ BuildServer \/ BuildClient \/ BuildPage \/ BuildGo
    BY <1>5 DEF BuildStarts, BuildServer, BuildClient, BuildPage, BuildGo, Injected
  <1>6. CASE DevStarts \/ DevStops \/ DevRestart \/ Update \/ Start \/ Stop
    BY <1>6 DEF DevStarts, DevStops, DevRestart, Update, Start, Stop
  <1>7. CASE WatchServer
    BY <1>7 DEF WatchServer
  <1>8. CASE WatchClient
    <2>1. PICK r : WatcherWrites(r)
      BY <1>8, WatcherRewrites
    <2>2. dist'.ssr = dist.ssr /\ (dist.page # {} => dist'.page # {})
      BY <2>1 DEF WatcherWrites
    <2>3. UNCHANGED <<cmd, initialised>>
      BY <1>8 DEF WatchClient
    <2>. QED  BY <2>2, <2>3
  <1>9. CASE Clean
    BY <1>9 DEF Clean
  <1>. QED  BY <1>1, <1>2, <1>3, <1>4, <1>5, <1>6, <1>7, <1>8, <1>9 DEF Next, RunInit, RunBuild

LEMMA DistStep == DistInv /\ [Next]_vars => DistInv'
  <1> SUFFICES ASSUME DistInv, [Next]_vars PROVE DistInv'
    OBVIOUS
  <1>1. Shape' /\ Complete(dist)'
    BY StepRewrites, ShapeStep, DistCompleteStep DEF DistInv, AllComplete, Reported
  <1>2. AllComplete'
    BY <1>1, LinkedStep DEF DistInv, AllComplete, Embedded
  <1>. QED  BY <1>1, <1>2, ReportedStep, WrittenStep DEF DistInv

\* Whatever commands overlap, are repeated or fail between two of their steps,
\* a page never asks for a script that is not there, and a project that was
\* set up and has components compiles until it is cleaned.
THEOREM OutputsStayUsable == Spec => []OutputsUsable
  <1>1. DistInv => ScriptsResolve
    BY DEF DistInv, AllComplete, Complete, ScriptsResolve
  <1>2. DistInv => AlwaysEmbeds
    BY DEF DistInv, Written, AlwaysEmbeds, Embeddable, ClientDir
  <1>3. DistInv => OutputsUsable
    BY <1>1, <1>2 DEF OutputsUsable
  <1>. QED  BY <1>3, DistInit, DistStep, PTL DEF Spec

-----------------------------------------------------------------------------
(***************************************************************************)
(* Bundles and pages that are of the sources they were built from.  What   *)
(* current records of dist is true of it at every moment, so a binary that *)
(* embeds whole outputs shows its own sources.                             *)
(***************************************************************************)
FreshServer(sources, d) == \E r \in ServerRegistries(sources) : d.ssr = {r}

\* The page loads one registry, by its hash or as the watcher's.
FreshPage(sources, d) ==
    \E r \in ClientRegistries(sources) :
        \/ d.page = {[hashed |-> {r}, plain |-> FALSE]}
        \/ d.page = {[hashed |-> {}, plain |-> TRUE]} /\ d.plain = {r}

Fresh ==
    /\ "ssr" \in current => FreshServer(src, dist)
    /\ "page" \in current => FreshPage(src, dist)
    /\ cmd = "build page" =>
          /\ dist.hashed # {} /\ "page" \notin current
          /\ "client" \in current => \E r \in ClientRegistries(src) : metafile = {r}

Sources(sources) ==
    /\ DOMAIN sources \subseteq Components
    /\ \A c \in DOMAIN sources : sources[c] \in Seq(Seq(Words))

\* What a binary embeds.
Truthful(b) ==
    /\ Sources(b.src)
    /\ b.whole => FreshServer(b.src, b.dist) /\ FreshPage(b.src, b.dist)

IslandInv ==
    /\ Shape
    /\ Sources(src)
    /\ Fresh
    /\ \A b \in binary : Truthful(b)
    /\ \A s \in server : Truthful(s.binary)

\* A registry has a component of a name of its own under that name, and
\* nothing under the name of a component it was not made from.
LEMMA RegistryEntry ==
    ASSUME NEW sources, Sources(sources), NEW c \in DOMAIN sources, Plain(sources, c),
           NEW eager \in SUBSET DOMAIN sources, NEW lazy \in SUBSET DOMAIN sources,
           NEW r \in Registries(sources, eager, lazy)
    PROVE  Lookup({r}, c) = IF c \in eager \cup lazy THEN {Entry(sources, c)} ELSE {}
  <1>1. Key(c) = c
    <2>1. c \in Seq(STRING) /\ Len(c) = 1
      BY ProjectAssumption DEF Sources, Plain
    <2>. QED  BY <2>1 DEF Key
  <1>2. \A d \in DOMAIN sources : Key(d) = c => d = c
    BY <1>1 DEF Plain
  <1>3. PICK chosen \in [Keys(eager \cup lazy) -> eager \cup lazy] :
            /\ \A k \in DOMAIN chosen : Key(chosen[k]) = k
            /\ r = [k \in Keys(eager \cup lazy) |-> Entry(sources, chosen[k])]
    BY DEF Registries
  <1>4. DOMAIN r = Keys(eager \cup lazy)
    BY <1>3
  <1>5. Lookup({r}, c) = IF c \in DOMAIN r THEN {r[c]} ELSE {}
    BY DEF Lookup
  <1>6. CASE c \in eager \cup lazy
    <2>1. c \in DOMAIN r
      BY <1>1, <1>4, <1>6 DEF Keys
    <2>2. chosen[c] \in DOMAIN sources /\ Key(chosen[c]) = c
      BY <1>3, <1>4, <2>1
    <2>3. chosen[c] = c
      BY <1>2, <2>2
    <2>. QED  BY <1>3, <1>4, <1>5, <1>6, <2>1, <2>3
  <1>7. CASE c \notin eager \cup lazy
    <2>1. c \notin DOMAIN r
      BY <1>2, <1>4, <1>7 DEF Keys
    <2>. QED  BY <1>5, <1>7, <2>1
  <1>. QED  BY <1>6, <1>7

LEMMA ModeIsMode ==
    ASSUME NEW text \in Seq(Seq(Words)), WellFormed(text)
    PROVE  ReadMode(text) \in Modes
  <1> DEFINE hits == {k \in DOMAIN text : k <= SearchLines /\ ScanLine(text[k]) # None}
  <1>1. CASE hits = {}
    BY <1>1 DEF ReadMode, Modes
  <1>2. CASE hits # {}
    <2>1. hits \in SUBSET (1..5)
      BY DEF SearchLines
    <2>2. Min(hits) \in hits
      BY <1>2, <2>1, FirstLine
    <2>3. \A line : ScanLine(line) \in Modes \cup {"error", None}
      BY DEF ScanLine, ExtractMode
    <2>4. ScanLine(text[Min(hits)]) # "error"
      BY <2>2 DEF WellFormed
    <2>. QED  BY <1>2, <2>2, <2>3, <2>4 DEF ReadMode
  <1>. QED  BY <1>1, <1>2

\* One script, and every component as its mode says.
LEMMA Declared ==
    ASSUME NEW sources, Sources(sources), NEW d, FreshPage(sources, d)
    PROVE  /\ Cardinality(Scripts(d)) = 1
           /\ \A c \in DOMAIN sources : Plain(sources, c) =>
                Found(d, c) = IF ReadMode(sources[c]) = "ssr" THEN {} ELSE {Entry(sources, c)}
  <1>1. PICK r \in ClientRegistries(sources) :
            \/ d.page = {[hashed |-> {r}, plain |-> FALSE]}
            \/ d.page = {[hashed |-> {}, plain |-> TRUE]} /\ d.plain = {r}
    BY DEF FreshPage
  <1>2. Loaded(d) = {r} /\ \E x : Scripts(d) = {x}
    <2>1. PICK page : d.page = {page} /\ \/ page = [hashed |-> {r}, plain |-> FALSE]
                                         \/ page = [hashed |-> {}, plain |-> TRUE] /\ d.plain = {r}
      BY <1>1
    <2>2. Loaded(d) = page.hashed \cup (IF page.plain THEN d.plain ELSE {})
      BY <2>1 DEF Loaded
    <2>3. Scripts(d) = {<<"client", q>> : q \in page.hashed} \cup (IF page.plain THEN {<<"client">>} ELSE {})
      BY <2>1 DEF Scripts
    <2>4. Loaded(d) = {r}
      BY <2>1, <2>2
    <2>5. CASE page = [hashed |-> {r}, plain |-> FALSE]
      <3>1. Scripts(d) = {<<"client", r>>}
        BY <2>3, <2>5
      <3>. QED  BY <2>4, <3>1
    <2>6. CASE page = [hashed |-> {}, plain |-> TRUE]
      <3>1. Scripts(d) = {<<"client">>}
        BY <2>3, <2>6
      <3>. QED  BY <2>4, <3>1
    <2>. QED  BY <2>1, <2>5, <2>6
  <1>3. Cardinality(Scripts(d)) = 1
    BY <1>2, FS_Singleton
  <1>4. ASSUME NEW c \in DOMAIN sources, Plain(sources, c)
        PROVE  Found(d, c) = IF ReadMode(sources[c]) = "ssr" THEN {} ELSE {Entry(sources, c)}
    <2>1. r \in Registries(sources, Eager(sources), Lazy(sources))
      BY DEF ClientRegistries
    <2>2. Eager(sources) \in SUBSET DOMAIN sources /\ Lazy(sources) \in SUBSET DOMAIN sources
      BY DEF Eager, Lazy, InModes
    <2>3. Found(d, c) = IF c \in Eager(sources) \cup Lazy(sources) THEN {Entry(sources, c)} ELSE {}
      BY <1>2, <1>4, <2>1, <2>2, RegistryEntry DEF Found
    <2>4. sources[c] \in Seq(Seq(Words)) /\ WellFormed(sources[c])
      BY <1>4 DEF Sources, Plain
    <2>5. ReadMode(sources[c]) = BundleMode(sources[c]) /\ ReadMode(sources[c]) \in Modes
      BY <2>4, ReadersAgree, ModeIsMode
    <2>6. c \in Eager(sources) \cup Lazy(sources) <=> ReadMode(sources[c]) # "ssr"
      BY <2>5 DEF Eager, Lazy, InModes, Modes
    <2>. QED  BY <2>3, <2>6
  <1>. QED  BY <1>3, <1>4

LEMMA DeclaredServer ==
    ASSUME NEW b, Sources(b.src), FreshServer(b.src, b.dist),
           NEW c \in DOMAIN b.src, Plain(b.src, c), ReadMode(b.src[c]) \in {"ssr", "hydrate"}
    PROVE  Rendered(b, c) = {Entry(b.src, c)}
  <1>1. PICK r \in ServerRegistries(b.src) : b.dist.ssr = {r}
    BY DEF FreshServer
  <1>2. r \in Registries(b.src, ServerSide(b.src), {})
    BY DEF ServerRegistries
  <1>3. ServerSide(b.src) \in SUBSET DOMAIN b.src
    BY DEF ServerSide, InModes
  <1>4. b.src[c] \in Seq(Seq(Words)) /\ WellFormed(b.src[c])
    BY DEF Sources, Plain
  <1>5. c \in ServerSide(b.src)
    BY <1>4, ReadersAgree DEF ServerSide, InModes
  <1>6. Lookup({r}, c) = {Entry(b.src, c)}
    <2>1. {} \in SUBSET DOMAIN b.src /\ c \in ServerSide(b.src) \cup {}
      BY <1>5
    <2>2. Lookup({r}, c) = IF c \in ServerSide(b.src) \cup {} THEN {Entry(b.src, c)} ELSE {}
      <3> DEFINE sources == b.src
      <3>1. /\ Sources(sources) /\ c \in DOMAIN sources /\ Plain(sources, c)
            /\ ServerSide(sources) \in SUBSET DOMAIN sources /\ {} \in SUBSET DOMAIN sources
            /\ r \in Registries(sources, ServerSide(sources), {})
        BY <1>2, <1>3
      <3> HIDE DEF sources
      <3>2. Lookup({r}, c) = IF c \in ServerSide(sources) \cup {} THEN {Entry(sources, c)} ELSE {}
        BY <3>1, RegistryEntry
      <3>. QED  BY <3>2 DEF sources
    <2>. QED  BY <2>1, <2>2
  <1>. QED  BY <1>1, <1>6 DEF Rendered

LEMMA IslandsFollow == IslandInv => IslandsAsDeclared
  <1> SUFFICES ASSUME IslandInv, NEW s \in server, s.binary.whole, SamePage(s)
               PROVE  /\ Cardinality(Scripts(Served(s))) = 1
                      /\ \A c \in DOMAIN s.binary.src :
                           Plain(s.binary.src, c) =>
                             LET mode == ReadMode(s.binary.src[c])
                                 own  == {Entry(s.binary.src, c)}
                             IN  /\ mode \in {"ssr", "hydrate"} => Rendered(s.binary, c) = own
                                 /\ Found(Served(s), c) = IF mode = "ssr" THEN {} ELSE own
    BY DEF IslandsAsDeclared
  <1>1. /\ Sources(s.binary.src)
        /\ FreshServer(s.binary.src, s.binary.dist)
        /\ FreshPage(s.binary.src, s.binary.dist)
    BY DEF IslandInv, Truthful
  <1>2. FreshPage(s.binary.src, Served(s))
    BY <1>1 DEF FreshPage, SamePage
  <1>. QED  BY <1>1, <1>2, Declared, DeclaredServer

LEMMA PlacesStep == DOMAIN src \subseteq Components /\ [Next]_vars => (DOMAIN src \subseteq Components)'
  <1> SUFFICES ASSUME DOMAIN src \subseteq Components, [Next]_vars
               PROVE  (DOMAIN src \subseteq Components)'
    OBVIOUS
  <1>1. ASSUME NEW c \in Components, Edit(c) \/ \E mode \in Modes : Generate(c, mode)
        PROVE  (DOMAIN src \subseteq Components)'
    <2>1. \A text : Put(c, text) => (DOMAIN src \subseteq Components)'
      BY DEF Put
    <2>2. CASE src' = [d \in DOMAIN src \ {c} |-> src[d]]
      BY <2>2
    <2>. QED  BY <1>1, <2>1, <2>2 DEF Edit, Generate
  <1>2. CASE InitFile
    BY <1>2, ProjectAssumption DEF InitFile, Put
  <1>3. CASE InitStarts \/ InitPage \/ InitServer \/ InitEnds \/ RunBuild \/ Fails
    BY <1>3 DEF InitStarts, InitPage, InitServer, InitEnds, RunBuild, BuildStarts,
                BuildServer, BuildClient, BuildPage, BuildGo, Fails
  <1>4. CASE DevStarts \/ DevStops \/ WatchServer \/ WatchClient \/ DevRestart \/ Clean
             \/ Update \/ Start \/ Stop
    BY <1>4 DEF DevStarts, DevStops, WatchServer, WatchClient, DevRestart, Clean, Update, Start, Stop
  <1>5. CASE UNCHANGED vars
    BY <1>5 DEF vars
  <1>. QED  BY <1>1, <1>2, <1>3, <1>4, <1>5 DEF Next, RunInit

LEMMA BuildsFresh == Shape /\ Reported /\ Fresh /\ (RunBuild \/ Fails) => Fresh'
  <1> SUFFICES ASSUME Shape, Reported, Fresh, RunBuild \/ Fails PROVE Fresh'
    OBVIOUS
  <1> USE DEF Shape, Fresh
  <1>1. CASE BuildStarts \/ BuildGo \/ Fails
    BY <1>1 DEF BuildStarts, BuildGo, Fails, FreshServer, FreshPage
  <1>2. CASE BuildServer
    <2>1. FreshServer(src, dist)'
      BY <1>2 DEF BuildServer, FreshServer
    <2>2. /\ UNCHANGED src /\ dist'.page = dist.page /\ dist'.plain = dist.plain
          /\ "page" \in current' => "page" \in current
          /\ cmd' # "build page"
      BY <1>2 DEF BuildServer
    <2>3. FreshPage(src, dist) => FreshPage(src, dist)'
      BY <2>2 DEF FreshPage
    <2>. QED  BY <2>1, <2>2, <2>3
  <1>3. CASE BuildClient
    <2>1. \E r \in ClientRegistries(src') : metafile' = {r}
      BY <1>3 DEF BuildClient
    <2>2. "page" \notin current' /\ ("ssr" \in current' => "ssr" \in current) /\ dist'.hashed # {}
      BY <1>3 DEF BuildClient, WithEntry
    <2>3. UNCHANGED src /\ dist'.ssr = dist.ssr
      BY <1>3 DEF BuildClient
    <2>4. FreshServer(src, dist) => FreshServer(src, dist)'
      BY <2>3 DEF FreshServer
    <2>. QED  BY <2>1, <2>2, <2>4
  <1>4. CASE BuildPage
    <2>1. /\ UNCHANGED src /\ dist'.ssr = dist.ssr /\ dist'.page = {PageScripts(metafile)}
          /\ dist'.plain = dist.plain /\ cmd' # "build page"
          /\ "ssr" \in current' => "ssr" \in current
      BY <1>4 DEF BuildPage, Injected, ClientDir
    <2>2. FreshServer(src, dist) => FreshServer(src, dist)'
      BY <2>1 DEF FreshServer
    <2>3. CASE "client" \in current
      <3>1. PICK r \in ClientRegistries(src) : metafile = {r}
        BY <1>4, <2>3 DEF BuildPage
      <3>2. FreshPage(src, dist)'
        BY <2>1, <3>1 DEF FreshPage, PageScripts
      <3>. QED  BY <2>1, <2>2, <3>2
    <2>4. CASE "client" \notin current
      <3>1. "page" \notin current'
        BY <1>4, <2>4 DEF BuildPage
      <3>. QED  BY <2>1, <2>2, <3>1
    <2>. QED  BY <2>3, <2>4
  <1>. QED  BY <1>1, <1>2, <1>3, <1>4 DEF RunBuild

LEMMA WatchersFresh ==
    ASSUME Shape, Fresh,
           WatchServer \/ WatchClient \/ DevStarts \/ DevStops \/ DevRestart \/ Clean \/ Update
    PROVE  Fresh'
  <1> USE DEF Shape, Fresh
  <1>1. CASE DevStarts \/ DevStops \/ DevRestart \/ Update
    BY <1>1 DEF DevStarts, DevStops, DevRestart, Update, FreshServer, FreshPage
  <1>2. CASE Clean
    BY <1>2 DEF Clean
  <1>3. CASE WatchServer
    <2>1. FreshServer(src, dist)'
      BY <1>3 DEF WatchServer, FreshServer
    <2>2. /\ UNCHANGED <<src, cmd, metafile>>
          /\ dist'.page = dist.page /\ dist'.plain = dist.plain /\ dist'.hashed = dist.hashed
          /\ "page" \in current' <=> "page" \in current
          /\ "client" \in current' <=> "client" \in current
      BY <1>3 DEF WatchServer
    <2>3. FreshPage(src, dist) => FreshPage(src, dist)'
      BY <2>2 DEF FreshPage
    <2>. QED  BY <2>1, <2>2, <2>3
  <1>4. CASE WatchClient
    <2> DEFINE built == {{r} : r \in ClientRegistries(src)}
    <2>1. PICK plain \in {dist.plain} \cup built :
             LET scripts == [hashed |-> dist.hashed, plain |-> plain # {}]
             IN  /\ dist' = Injected([dist EXCEPT !.plain = plain], scripts)
                 /\ current' = (IF dist' = dist THEN current ELSE current \ {"page"}) \cup
                       (IF dist'.page = {scripts} /\ dist.hashed = {} /\ plain \in built THEN {"page"} ELSE {})
      BY <1>4 DEF WatchClient
    <2> DEFINE scripts == [hashed |-> dist.hashed, plain |-> plain # {}]
    <2>2. /\ UNCHANGED <<src, cmd, metafile>>
          /\ dist'.ssr = dist.ssr /\ dist'.hashed = dist.hashed /\ dist'.plain = plain
          /\ "ssr" \in current' <=> "ssr" \in current
          /\ "client" \in current' <=> "client" \in current
      BY <1>4, <2>1 DEF WatchClient, Injected
    <2>3. FreshServer(src, dist) => FreshServer(src, dist)'
      BY <2>2 DEF FreshServer
    <2>4. CASE dist'.page = {scripts} /\ dist.hashed = {} /\ plain \in built
      <3>1. PICK r \in ClientRegistries(src) : plain = {r}
        BY <2>4
      <3>2. dist'.page = {[hashed |-> {}, plain |-> TRUE]} /\ dist'.plain = {r}
        BY <2>2, <2>4, <3>1
      <3>3. FreshPage(src, dist)'
        BY <2>2, <3>2 DEF FreshPage
      <3>. QED  BY <2>2, <2>3, <2>4, <3>3
    <2>5. CASE ~(dist'.page = {scripts} /\ dist.hashed = {} /\ plain \in built)
      <3>1. current' = IF dist' = dist THEN current ELSE current \ {"page"}
        BY <2>1, <2>5
      <3>2. CASE dist' = dist
        BY <2>2, <3>1, <3>2 DEF FreshServer, FreshPage
      <3>3. CASE dist' # dist
        BY <2>2, <2>3, <3>1, <3>3
      <3>. QED  BY <3>2, <3>3
    <2>. QED  BY <2>4, <2>5
  <1>. QED  BY <1>1, <1>2, <1>3, <1>4

LEMMA FreshStep == Shape /\ Reported /\ Fresh /\ [Next]_vars => Fresh'
  <1> SUFFICES ASSUME Shape, Reported, Fresh, [Next]_vars PROVE Fresh'
    OBVIOUS
  <1>1. ASSUME NEW c \in Components, Edit(c) \/ \E mode \in Modes : Generate(c, mode)
        PROVE  Fresh'
    BY <1>1 DEF Fresh, Edit, Generate, Changed
  <1>2. CASE InitStarts \/ InitPage \/ InitServer \/ InitFile
    BY <1>2 DEF Fresh, InitStarts, InitPage, InitServer, InitFile, Changed
  <1>3. CASE InitEnds \/ Start \/ Stop \/ UNCHANGED vars
    BY <1>3 DEF Fresh, InitEnds, Start, Stop, vars, FreshServer, FreshPage
  <1>. QED  BY <1>1, <1>2, <1>3, BuildsFresh, WatchersFresh DEF Next, RunInit

\* A server whose outputs were built since its sources last changed shows each
\* component as its annotation declares, for any components, texts and
\* starters, whatever builds, sessions and edits overlapped on the way: Node
\* renders from the text Go reads the mode from, and the registry of the page's
\* one script has that text where the mode says so and nothing elsewhere.
THEOREM IslandsShown == Spec => []IslandsAsDeclared
  <1> DEFINE Inv == DistInv /\ IslandInv
  <1>1. Init => Inv
    <2>1. Init => IslandInv
      <3> SUFFICES ASSUME Init PROVE IslandInv
        OBVIOUS
      <3>1. Shape /\ Fresh
        BY DistInit DEF DistInv, Init, Fresh
      <3>2. Sources(src)
        BY DEF Init, Nothing, Sources
      <3>. QED  BY <3>1, <3>2 DEF Init, IslandInv
    <2>. QED  BY <2>1, DistInit
  <1>2. Inv /\ [Next]_vars => Inv'
    <2> SUFFICES ASSUME DistInv, IslandInv, [Next]_vars PROVE DistInv' /\ IslandInv'
      OBVIOUS
    <2>1. DistInv'
      BY DistStep
    <2>2. Sources(src)'
      BY SourcesStep, PlacesStep DEF IslandInv, Sources, SourcesTyped
    <2>3. Fresh'
      BY FreshStep DEF DistInv, IslandInv
    <2>4. Truthful(Embedded)
      BY DEF Truthful, Embedded, IslandInv, Fresh
    <2>. QED  BY <2>1, <2>2, <2>3, <2>4, LinkedStep DEF DistInv, IslandInv
  <1>3. Inv => IslandsAsDeclared
    BY IslandsFollow
  <1>. QED  BY <1>1, <1>2, <1>3, PTL DEF Spec
=============================================================================
