------------------------------ MODULE Project -------------------------------
(***************************************************************************)
(* A revelt project on disk and the command line that works on it: init,   *)
(* generate, build, dev, clean and update; what they leave in dist and in  *)
(* the binary; and what a page of a server started from that binary shows. *)
(*                                                                         *)
(* A component's mode is read twice from its leading lines, by Go for the  *)
(* renderer and by build.mjs for the bundles, and the two must agree.  A   *)
(* line is a sequence of tokens: "@mode", " ", a mode, "long", which is as *)
(* long as the buffer of Go's scanner, or anything else.                   *)
(* A component is its path below the component directory, without the      *)
(* extension; what it shows is identified with its source text.            *)
(***************************************************************************)
EXTENDS Naturals, Sequences, FiniteSets, SequencesExt

CONSTANTS Components,   \* paths, as sequences of directories and a stem
          Words,        \* the tokens of source texts
          Texts,        \* source texts authors write, as sequences of lines
          Starters,     \* components that init writes, with their texts
          Files,        \* the other files of the project that init writes
          MaxChanges,   \* bound on edits of the sources, init included
          MaxCommands   \* bound on commands given

Modes == {"ssr", "hydrate", "client", "lazy-client"}
None  == "none"
SearchLines == 5

ASSUME ProjectAssumption ==
    /\ Components \subseteq Seq(STRING) \ {<<>>}
    /\ {"//", " ", "@mode", "long"} \cup Modes \subseteq Words
    /\ Texts \subseteq Seq(Seq(Words))
    /\ DOMAIN Starters \subseteq Components
    /\ \A c \in DOMAIN Starters : Starters[c] \in Seq(Seq(Words))
    /\ {"revelt.json", "build.mjs", "embed.go"} \subseteq Files
    /\ MaxChanges \in Nat /\ MaxCommands \in Nat
-----------------------------------------------------------------------------
(***************************************************************************)
(* Reading the mode of a component                                         *)
(***************************************************************************)
Marks(line) == {k \in DOMAIN line : line[k] = "@mode"}

\* What stands after the mark at k, blanks skipped.
Following(line, k) ==
    LET rest == {j \in DOMAIN line : j > k /\ line[j] # " "}
    IN  IF rest = {} THEN None ELSE line[Min(rest)]

\* extractMode looks behind the first mark of a line, whatever separates it.
ExtractMode(line) ==
    IF Marks(line) # {} /\ Following(line, Min(Marks(line))) \in Modes
    THEN Following(line, Min(Marks(line))) ELSE None

\* What the scanner's loop sees in a line; a line that overflows the buffer ends
\* it with an error.
ScanLine(line) == IF \E k \in DOMAIN line : line[k] = "long" THEN "error" ELSE ExtractMode(line)

\* The expression of build.mjs takes the first mark with a blank and a mode after it.
MatchMode(line) ==
    LET hits == {k \in Marks(line) : /\ k + 1 \in DOMAIN line /\ line[k + 1] = " "
                                     /\ Following(line, k) \in Modes}
    IN  IF hits = {} THEN None ELSE Following(line, Min(hits))

\* Mutant: the loop reads one line more.
ReadMode_SixLines(text) ==
    LET hits == {k \in DOMAIN text : k <= SearchLines + 1 /\ ScanLine(text[k]) # None}
    IN  IF hits = {} THEN "hydrate" ELSE ScanLine(text[Min(hits)])

ReadMode(text) ==
    LET hits == {k \in DOMAIN text : k <= SearchLines /\ ScanLine(text[k]) # None}
    IN  IF hits = {} THEN "hydrate" ELSE ScanLine(text[Min(hits)])

BundleMode(text) ==
    LET hits == {k \in DOMAIN text : k <= SearchLines /\ MatchMode(text[k]) # None}
    IN  IF hits = {} THEN "hydrate" ELSE MatchMode(text[Min(hits)])

\* The lines that are looked at fit the scanner's buffer and have one mark at
\* most, with a blank between it and a mode.
WellFormed(text) ==
    \A i \in DOMAIN text : i <= SearchLines =>
        /\ ScanLine(text[i]) # "error"
        /\ \A k \in Marks(text[i]) :
             /\ Marks(text[i]) = {k}
             /\ Following(text[i], k) \in Modes =>
                  k + 1 \in DOMAIN text[i] /\ text[i][k + 1] = " "

\* Discovery of the components fails with the first that cannot be read.
Loads(sources) == \A c \in DOMAIN sources : ReadMode(sources[c]) # "error"
-----------------------------------------------------------------------------
(***************************************************************************)
(* Registries of the bundles                                               *)
(***************************************************************************)

\* Registries are keyed by the base name; the page asks for the path.
Key(c) == <<c[Len(c)]>>

Keys(comps) == {Key(c) : c \in comps}
Collides(comps) == \E c, d \in comps : c # d /\ Key(c) = Key(d)

\* Mutant: the filter of the client side forgets the lazy components.
InModes_Eager(sources, modes) == {c \in DOMAIN sources : BundleMode(sources[c]) \in modes \ {"lazy-client"}}

InModes(sources, modes) == {c \in DOMAIN sources : BundleMode(sources[c]) \in modes}

ServerSide(sources) == InModes(sources, {"ssr", "hydrate"})
Eager(sources) == InModes(sources, {"hydrate", "client"})
Lazy(sources)  == InModes(sources, {"lazy-client"})

Entry(sources, c) == [of |-> c, text |-> sources[c]]

\* Eagerly imported components of one name do not compile; of the lazy ones
\* the last in the directory's order stays, over the eager ones.
Registries(sources, eager, lazy) ==
    {[k \in Keys(eager \cup lazy) |-> Entry(sources, chosen[k])] :
        chosen \in {f \in [Keys(eager \cup lazy) -> eager \cup lazy] :
            \A k \in DOMAIN f : Key(f[k]) = k /\ (k \in Keys(lazy) => f[k] \in lazy)}}

ServerRegistries(sources) ==
    IF Collides(ServerSide(sources)) THEN {} ELSE Registries(sources, ServerSide(sources), {})
ClientRegistries(sources) ==
    IF Collides(Eager(sources)) THEN {} ELSE Registries(sources, Eager(sources), Lazy(sources))

Nothing == [x \in {} |-> None]
Placeholder == Nothing
-----------------------------------------------------------------------------
VARIABLES
    src,        \* the components that exist, with their texts
    files,      \* other project files that exist
    dist,       \* what the build has left: see NoDist
    cmd,        \* the step that init or build is about to do, or "idle"
    metafile,   \* the entry that the client build reported, if any
    dev,        \* a development session runs
    binary,     \* {}, or what the binary embeds
    server,     \* {}, or the running server: its binary, and the files it serves
    changes,    \* edits so far
    commands,   \* commands given so far
    initialised,\* history: the project was set up and not cleaned since
    current     \* history: parts of dist built since the sources last changed

vars == <<src, files, dist, cmd, metafile, dev, binary, server, changes, commands, initialised, current>>

\* render-server.cjs, if there; client entries by hash and the unhashed one
\* of the watcher; the scripts that index.html loads, if there.
NoDist == [ssr |-> {}, hashed |-> {}, plain |-> {}, page |-> {}]
NoScripts == [hashed |-> {}, plain |-> FALSE]

Init ==
    /\ src = Nothing
    /\ files = {}
    /\ dist = NoDist
    /\ cmd = "idle"
    /\ metafile = {}
    /\ dev = FALSE
    /\ binary = {}
    /\ server = {}
    /\ changes = 0
    /\ commands = 0
    /\ initialised = FALSE
    /\ current = {}

Changed ==
    /\ changes < MaxChanges
    /\ changes' = changes + 1
    /\ current' = {}

\* LoadConfig, which all commands but init begin with.
Configured == "revelt.json" \in files /\ Loads(src)

Given ==
    /\ commands < MaxCommands
    /\ commands' = commands + 1

Put(c, text) == src' = [d \in DOMAIN src \cup {c} |-> IF d = c THEN text ELSE src[d]]

\* The author writes or removes a component, at any time.
Edit(c) ==
    /\ files # {}
    /\ Changed
    /\ \/ \E text \in Texts : Put(c, text)
       \/ c \in DOMAIN src /\ src' = [d \in DOMAIN src \ {c} |-> src[d]]
    /\ UNCHANGED <<files, dist, cmd, metafile, dev, binary, server, commands, initialised>>

\* An existing component is left alone.
Generate(c, mode) ==
    /\ c \notin DOMAIN src
    /\ Changed
    /\ Configured
    /\ Put(c, <<<<"//", " ", "@mode", " ", mode>>>>)
    /\ UNCHANGED <<files, dist, cmd, metafile, dev, binary, server, commands, initialised>>
-----------------------------------------------------------------------------
(***************************************************************************)
(* init                                                                    *)
(***************************************************************************)
InitStarts ==
    /\ Given
    /\ cmd = "idle"
    /\ Changed
    /\ cmd' = "init page"
    /\ UNCHANGED <<src, files, dist, metafile, dev, binary, server, initialised>>

InitPage ==
    /\ cmd = "init page"
    /\ dist' = [dist EXCEPT !.page = {NoScripts}]
    /\ cmd' = "init ssr"
    /\ current' = {}
    /\ UNCHANGED <<src, files, metafile, dev, binary, server, changes, commands, initialised>>

\* Whatever was there is overwritten.
PlaceholderFor(present) == {Placeholder}

InitServer ==
    /\ cmd = "init ssr"
    /\ dist' = [dist EXCEPT !.ssr = PlaceholderFor(@)]
    /\ cmd' = "init files"
    /\ current' = {}
    /\ UNCHANGED <<src, files, metafile, dev, binary, server, changes, commands, initialised>>

\* The starters that are as init writes them.
Started == {c \in DOMAIN Starters \cap DOMAIN src : src[c] = Starters[c]}

\* Templates are written in any order; starters replace components of their name.
InitFile ==
    /\ cmd = "init files"
    /\ \/ \E f \in Files \ files : files' = files \cup {f} /\ UNCHANGED src
       \/ \E c \in DOMAIN Starters \ Started : Put(c, Starters[c]) /\ UNCHANGED files
    /\ current' = {}
    /\ UNCHANGED <<dist, cmd, metafile, dev, binary, server, changes, commands, initialised>>

InitEnds ==
    /\ cmd = "init files"
    /\ files = Files
    /\ Started = DOMAIN Starters
    /\ cmd' = "idle"
    /\ initialised' = TRUE
    /\ UNCHANGED <<src, files, dist, metafile, dev, binary, server, changes, commands, current>>

\* A step that fails ends the command.
Fails ==
    /\ cmd # "idle"
    /\ cmd' = "idle"
    /\ metafile' = {}
    /\ UNCHANGED <<src, files, dist, dev, binary, server, changes, commands, initialised, current>>

RunInit == InitStarts \/ InitPage \/ InitServer \/ InitFile \/ InitEnds
-----------------------------------------------------------------------------
(***************************************************************************)
(* build                                                                   *)
(***************************************************************************)
BuildStarts ==
    /\ Given
    /\ cmd = "idle"
    /\ Configured
    /\ cmd' = "build ssr"
    /\ UNCHANGED <<src, files, dist, metafile, dev, binary, server, changes, initialised, current>>

BuildServer ==
    /\ cmd = "build ssr"
    /\ "build.mjs" \in files
    /\ \E registry \in ServerRegistries(src) : dist' = [dist EXCEPT !.ssr = {registry}]
    /\ cmd' = "build client"
    /\ current' = current \cup {"ssr"}
    /\ UNCHANGED <<src, files, metafile, dev, binary, server, changes, commands, initialised>>

\* Mutant: the output directory is emptied first.
WithEntry_Emptied(entries, registry) == {registry}

\* The name of an entry holds its hash; older entries stay.
WithEntry(entries, registry) == entries \cup {registry}

\* The entry file is the one the metafile names; it goes into the page next.
BuildClient ==
    /\ cmd = "build client"
    /\ \E registry \in ClientRegistries(src) :
        /\ dist' = [dist EXCEPT !.hashed = WithEntry(@, registry)]
        /\ metafile' = {registry}
    /\ cmd' = "build page"
    /\ current' = (current \ {"page"}) \cup {"client"}
    /\ UNCHANGED <<src, files, dev, binary, server, changes, commands, initialised>>

\* Tags of earlier builds are not in the template; only the new entry is.
PageScripts(entries) == [hashed |-> entries, plain |-> FALSE]

\* dist/client exists: it is made with its first file.
ClientDir(d) == d.hashed # {} \/ d.plain # {} \/ d.page # {}

\* injectAssets, with the page's template there: init writes it before it writes
\* revelt.json, and authors here edit nothing but components.
Injected(d, scripts) == IF ClientDir(d) THEN [d EXCEPT !.page = {scripts}] ELSE d

BuildPage ==
    /\ cmd = "build page"
    /\ dist' = Injected(dist, PageScripts(metafile))
    /\ cmd' = "build go"
    /\ metafile' = {}
    /\ current' = current \cup (IF "client" \in current THEN {"page"} ELSE {})
    /\ UNCHANGED <<src, files, dev, binary, server, changes, commands, initialised>>

\* go:embed needs something of each pattern.
Embeddable == DOMAIN src # {} /\ dist.ssr # {} /\ ClientDir(dist)

Embedded == [src |-> src, dist |-> dist, whole |-> {"ssr", "page"} \subseteq current]

BuildGo ==
    /\ cmd = "build go"
    /\ "embed.go" \in files
    /\ Embeddable
    /\ binary' = {Embedded}
    /\ cmd' = "idle"
    /\ metafile' = {}
    /\ UNCHANGED <<src, files, dist, dev, server, changes, commands, initialised, current>>

RunBuild == BuildStarts \/ BuildServer \/ BuildClient \/ BuildPage \/ BuildGo
-----------------------------------------------------------------------------
(***************************************************************************)
(* dev and clean                                                           *)
(***************************************************************************)
\* The port of the project is free.
DevStarts ==
    /\ Given
    /\ ~dev /\ server = {}
    /\ Configured
    /\ dev' = TRUE
    /\ UNCHANGED <<src, files, dist, cmd, metafile, binary, server, changes, initialised, current>>

DevStops ==
    /\ dev
    /\ dev' = FALSE
    /\ server' = {}
    /\ UNCHANGED <<src, files, dist, cmd, metafile, binary, changes, commands, initialised, current>>

WatchServer ==
    /\ dev /\ "build.mjs" \in files
    /\ \E registry \in ServerRegistries(src) : dist' = [dist EXCEPT !.ssr = {registry}]
    /\ current' = current \cup {"ssr"}
    /\ UNCHANGED <<src, files, cmd, metafile, dev, binary, server, changes, commands, initialised>>

\* The page is rewritten also after a build that failed and left the bundle as
\* it was.  It loads every entry the watcher finds: a session over hashed ones of
\* an earlier build does not count as current.
WatchClient ==
    /\ dev /\ "build.mjs" \in files
    /\ LET built == {{r} : r \in ClientRegistries(src)}
       IN  \E plain \in {dist.plain} \cup built :
           LET scripts == [hashed |-> dist.hashed, plain |-> plain # {}]
           IN  /\ dist' = Injected([dist EXCEPT !.plain = plain], scripts)
               /\ current' = (IF dist' = dist THEN current ELSE current \ {"page"}) \cup
                     (IF dist'.page = {scripts} /\ dist.hashed = {} /\ plain \in built THEN {"page"} ELSE {})
    /\ UNCHANGED <<src, files, cmd, metafile, dev, binary, server, changes, commands, initialised>>

\* go build and start, in the project's directory; a server that cannot load its
\* configuration ends at once.
DevRestart ==
    /\ dev /\ "embed.go" \in files
    /\ Embeddable
    /\ server' = IF Loads(src) THEN {[binary |-> Embedded, disk |-> TRUE]} ELSE {}
    /\ UNCHANGED <<src, files, dist, cmd, metafile, dev, binary, changes, commands, initialised, current>>

Clean ==
    /\ Given
    /\ cmd = "idle"
    /\ Configured
    /\ dist' = NoDist
    /\ initialised' = FALSE
    /\ current' = {}
    /\ UNCHANGED <<src, files, cmd, metafile, dev, binary, server, changes>>
\* The framework's own files, build.mjs standing for the four, are written
\* again, also when init did not get to them.
Update ==
    /\ Given
    /\ cmd = "idle"
    /\ Configured
    /\ files' = files \cup {"build.mjs"}
    /\ UNCHANGED <<src, dist, cmd, metafile, dev, binary, server, changes, initialised, current>>
-----------------------------------------------------------------------------
(***************************************************************************)
(* The server and its pages                                                *)
(***************************************************************************)

\* Elsewhere, or without dist/client, the embedded files are served.
Start ==
    /\ ~dev /\ server = {} /\ binary # {}
    /\ \E b \in binary, here \in BOOLEAN :
        /\ Loads(b.src)
        /\ server' = {[binary |-> b, disk |-> here /\ ClientDir(dist)]}
    /\ UNCHANGED <<src, files, dist, cmd, metafile, dev, binary, changes, commands, initialised, current>>

Stop ==
    /\ ~dev /\ server # {}
    /\ server' = {}
    /\ UNCHANGED <<src, files, dist, cmd, metafile, dev, binary, changes, commands, initialised, current>>

Served(s) == IF s.disk THEN dist ELSE s.binary.dist

Lookup(registries, name) == {r[name] : r \in {q \in registries : name \in DOMAIN q}}

\* What stands in the page for c: nothing but a container, or what Node made
\* of it; no element when the render fails.
Rendered(b, c) ==
    IF ReadMode(b.src[c]) \in {"client", "lazy-client"} THEN {"container"}
    ELSE Lookup(b.dist.ssr, c)

\* The scripts that the page loads, their registries, and what these hold for c.
Scripts(d) == UNION {{<<"client", r>> : r \in page.hashed} \cup (IF page.plain THEN {<<"client">>} ELSE {}) : page \in d.page}
Loaded(d) == UNION {page.hashed \cup (IF page.plain THEN d.plain ELSE {}) : page \in d.page}
Found(d, c) == Lookup(Loaded(d), c)
-----------------------------------------------------------------------------
Next ==
    \/ \E c \in Components : Edit(c) \/ \E mode \in Modes : Generate(c, mode)
    \/ RunInit \/ RunBuild \/ Fails
    \/ DevStarts \/ DevStops \/ WatchServer \/ WatchClient \/ DevRestart \/ Clean \/ Update
    \/ Start \/ Stop

Spec == Init /\ [][Next]_vars
-----------------------------------------------------------------------------
\* The two readers of modes agree on every well-formed text.
DiscoveryAgrees ==
    \A c \in DOMAIN src : WellFormed(src[c]) => ReadMode(src[c]) = BundleMode(src[c])

\* The page at hand is that of the binary.
SamePage(s) ==
    LET d == Served(s) IN d.page = s.binary.dist.page /\ d.plain = s.binary.dist.plain

\* Premise of IslandsAsDeclared: a top-level component, of a name of its own,
\* with a well-formed text.
Plain(sources, c) ==
    /\ Len(c) = 1
    /\ \A d \in DOMAIN sources \ {c} : Key(d) # Key(c)
    /\ WellFormed(sources[c])

\* A server whose bundles and page were built since its sources last changed
\* has for each component what its annotation declares: Node's rendering, of the
\* same text, for ssr and hydrate, and in the registry of the one script that the
\* page loads the same text again for all but ssr, which has no entry there.
IslandsAsDeclared ==
    \A s \in server :
        s.binary.whole /\ SamePage(s) =>
            /\ Cardinality(Scripts(Served(s))) = 1
            /\ \A c \in DOMAIN s.binary.src :
                Plain(s.binary.src, c) =>
                    LET mode == ReadMode(s.binary.src[c])
                        own  == {Entry(s.binary.src, c)}
                    IN  /\ mode \in {"ssr", "hydrate"} => Rendered(s.binary, c) = own
                        /\ Found(Served(s), c) = IF mode = "ssr" THEN {} ELSE own

\* Every script that a page loads is there, also of a page that an older
\* process serves from disk while builds go on or fail.
ScriptsResolve ==
    \A d \in {dist} \cup {s.binary.dist : s \in server} :
        \A page \in d.page : page.hashed \subseteq d.hashed /\ (page.plain => d.plain # {})

\* Once set up, and until cleaned, the project compiles: embedded patterns
\* match something whatever builds have failed.
AlwaysEmbeds == initialised /\ DOMAIN src # {} => Embeddable

\* What is in dist can be used at every moment, also between the steps of a
\* build that goes on, fails, or overlaps with a development session.
OutputsUsable == ScriptsResolve /\ AlwaysEmbeds
=============================================================================
