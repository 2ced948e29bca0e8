---------------------------- MODULE TestClosure ----------------------------
(***************************************************************************)
(* The static module closure of the tests a campaign executes              *)
(* (src/engine/test-closure.ts), and the links and files a campaign then   *)
(* leaves out of its snapshot (assessRepositoryLinks and                   *)
(* planCampaignSnapshot of src/engine/index.ts).                           *)
(*                                                                         *)
(* A path is the sequence of its segments from the root, and the extension *)
(* of a file is an element of its own: src/a.ts is <<"src", "a", ".ts">>.  *)
(* A text is what the scanners find in it: the specifiers of a module, the *)
(* fields of a package.json or a tsconfig, the preloads of a bunfig.  A    *)
(* specifier is relative, bare, an alias of the package ("#"), absolute or *)
(* provided by the runtime.                                                *)
(***************************************************************************)
EXTENDS Naturals, SequencesExt

CONSTANTS
  Repositories,   \* the repositories and requests of a model
  HopLimit        \* LINK_HOP_LIMIT

VARIABLES
  repo,    \* the repository, its links and texts, and the request
  index,   \* what is read of the whole repository before the walk
  walk,    \* the closure as far as it is known
  plan     \* the outcome

vars == <<repo, index, walk, plan>>

Scanned == <<".ts", ".tsx", ".js">>
Resolved == Append(Scanned, ".json")
Extensions == ToSet(Resolved) \cup {".toml"}
Manifest == <<"package", ".json">>
Tsconfig == <<"tsconfig", ".json">>
Bunfig == <<"bunfig", ".toml">>

(* The directory d holds p, at any depth. *)
Above(d, p) ==
  Len(d) < Len(p) /\ SubSeq(p, 1, Len(d)) = d /\ p[Len(d) + 1] \notin Extensions

Dir(p) == SubSeq(p, 1, Len(p) - (IF Last(p) \in Extensions THEN 2 ELSE 1))
Under(set, d) == {p \in set : Above(d, p)}
Dirs(p) == {SubSeq(p, 1, n) : n \in 0 .. Len(Dir(p))}
Installed(p) == Contains(p, "node_modules")

(* p read through the links on it, of which only those of "to" are         *)
(* followed: the real path, or where the reading stopped.                  *)
RECURSIVE Hop(_, _, _, _, _)
Hop(links, to, p, passed, n) ==
  LET on == {l \in links : l = p \/ Above(l, p)}
      first == CHOOSE l \in on : \A k \in on : Len(l) <= Len(k)
  IN  CASE on = {} -> [path |-> p, links |-> passed, stopped |-> FALSE]
        [] on # {} /\ (first \notin DOMAIN to \/ n >= HopLimit) ->
             [path |-> p, links |-> passed \cup {first}, stopped |-> TRUE]
        [] OTHER -> Hop(links, to, to[first] \o SubSeq(p, Len(first) + 1, Len(p)),
                        passed \cup {first}, n + 1)

ReadThrough(links, to, p) == Hop(links, to, p, {}, 0)
RealPath(p) == ReadThrough(index.links, index.to, p)

-----------------------------------------------------------------------------
(* What is read of the whole repository first: its links, every tsconfig,  *)
(* and the packages that its own manifests name.                           *)

Texts(r, f) == r.texts[f]
Known(r) == DOMAIN r.texts   \* the files of the repository and those overlaid

(* classifyRepositoryLinks: a link is internal when the path it names and  *)
(* the path it leads to are in the repository.                             *)
Exists(files, directories, p) == p = <<>> \/ p \in files \cup directories \/ Under(files, p) # {}
Inside(r) == {l \in DOMAIN r.links : r.links[l].inside}
InternalLinks(r) ==
  LET to == [l \in Inside(r) |-> r.links[l].path] IN
  {l \in Inside(r) :
     LET real == ReadThrough(DOMAIN r.links, to, l) IN
     ~real.stopped /\ Exists(r.files, r.directories, real.path)}

(* linkEscapesRoot *)
Escapes(r, l) ==
  LET to == [k \in Inside(r) |-> r.links[k].path]
      real == ReadThrough(DOMAIN r.links, to, l)
  IN  real.stopped /\ \E k \in real.links : k \notin Inside(r)

(* tsconfigMappings.  The file an "extends" names, if it is found. *)
ExtendsCandidates(config, s) ==
  IF s.kind = "relative"
  THEN IF s.up > Len(Dir(config)) THEN {}
       ELSE {SubSeq(Dir(config), 1, Len(Dir(config)) - s.up) \o s.path}
  ELSE {d \o <<"node_modules", s.name>> \o s.path : d \in Dirs(config)}

Inherited(r, links, to, config, s) ==
  LET named(real) == {real.path, Append(real.path, ".json"), real.path \o Tsconfig} \cap Known(r)
      read(c) == ReadThrough(links, to, c)
      hits == {c \in ExtendsCandidates(config, s) : read(c).stopped \/ named(read(c)) # {}}
      nearest == read(CHOOSE c \in hits : \A d \in hits : Len(c) >= Len(d))
  IN  CASE hits = {} -> [stopped |-> FALSE, files |-> {}]
        [] hits # {} /\ nearest.stopped -> [stopped |-> TRUE, files |-> {}]
        [] OTHER -> [stopped |-> FALSE,
                     files |-> {CHOOSE f \in named(nearest) :
                                  \A g \in named(nearest) : Len(f) <= Len(g)}]

IsProjectConfiguration(f) == f # <<>> /\ Last(f) = ".json" /\ f[Len(f) - 1] = "tsconfig"

ExtendsOf(r, config) == UNION {t.extends : t \in Texts(r, config)}

(* The least set that holds the base and what the step adds to it. *)
RECURSIVE Saturate(_, _)
Saturate(Step(_), set) ==
  LET next == set \cup Step(set) IN IF next = set THEN set ELSE Saturate(Step, next)

Configs(r, links, to) ==
  LET inherits(set) ==
        UNION {UNION {Inherited(r, links, to, c, s).files : s \in ExtendsOf(r, c)} : c \in set}
  IN  Saturate(inherits, {f \in Known(r) : IsProjectConfiguration(f) /\ ~Installed(f)})

(* A configuration that extends one that is not there, or that extends one *)
(* that does.                                                              *)
Unresolved(r, links, to) ==
  LET all == Configs(r, links, to)
      missing(c) == \E s \in ExtendsOf(r, c) :
                      Inherited(r, links, to, c, s) = [stopped |-> FALSE, files |-> {}]
      parents(set) == {c \in all : \E s \in ExtendsOf(r, c) :
                         Inherited(r, links, to, c, s).files \cap set # {}}
  IN  Saturate(parents, {c \in all : missing(c)})

MappingsOf(r, config) ==
  {[pattern |-> m.pattern, star |-> m.star, outside |-> m.up > Len(Dir(config)),
    target |-> SubSeq(Dir(config), 1, Len(Dir(config)) - m.up) \o m.path] :
     m \in UNION {t.paths : t \in Texts(r, config)}}

(* workspacePackages *)
Workspaces(r) ==
  LET manifests == {f \in Known(r) : Len(f) > 2 /\ Dir(f) \o Manifest = f /\ ~Installed(f)}
      names == (UNION {{t.name : t \in Texts(r, f)} : f \in manifests}) \ {""}
  IN  [n \in names |-> Dir(CHOOSE f \in manifests : \E t \in Texts(r, f) : t.name = n)]

IndexOf(r) ==
  LET links == DOMAIN r.links
      to == [l \in (IF r.version = 5 THEN InternalLinks(r) ELSE {}) |-> r.links[l].path]
      configs == Configs(r, links, to)
  IN  [links |-> links, to |-> to,
       mappings |-> UNION {MappingsOf(r, c) : c \in configs},
       jsx |-> UNION {UNION {t.jsx : t \in Texts(r, c)} : c \in configs},
       unresolved |-> Unresolved(r, links, to),
       workspaces |-> Workspaces(r)]

-----------------------------------------------------------------------------
(* ClosureWalk.  Its operations return the walk; "found" is what the last  *)
(* of them returns in the code.                                            *)

Files == Known(repo)
FollowsLinks == DOMAIN index.to # {}

Found(w, value) == [w EXCEPT !.found = value]
Unbounded(w, file, reason) == [w EXCEPT !.unbounded = @ \cup {[file |-> file, reason |-> reason]}]

AddFile(w, f) ==
  IF f \in w.files THEN w
  ELSE [w EXCEPT !.files = @ \cup {f}, !.queue = IF Installed(f) THEN @ ELSE Append(@, f)]

AddFiles(w, set) == FoldSet(LAMBDA f, v : AddFile(v, f), w, set)

(* Mutant: a link that is followed is not kept. *)
NoteStopsOnly(w, real) == IF real.stopped THEN [w EXCEPT !.links = @ \cup real.links] ELSE w

Note(w, real) == [w EXCEPT !.links = @ \cup real.links]

IncludeReal(w, real) ==
  IF ~real.stopped /\ real.path \in Files
  THEN AddFile(Found(Note(w, real), TRUE), real.path)
  ELSE Found(Note(w, real), real.stopped)

Include(w, p) == IncludeReal(w, RealPath(p))

RECURSIVE IncludeLinksUnder(_, _)
FollowTree(w, real) ==
  CASE real.stopped \/ real.path \in w.trees -> Note(w, real)
    [] ~real.stopped /\ real.path \in Files ->
         IncludeReal([w EXCEPT !.trees = @ \cup {real.path}], real)
    [] OTHER -> IncludeLinksUnder(
                  AddFiles([Note(w, real) EXCEPT !.trees = @ \cup {real.path}], Under(Files, real.path)),
                  real.path)

IncludeLinksUnder(w, dir) ==
  IF FollowsLinks
  THEN FoldSet(LAMBDA l, v : FollowTree(v, RealPath(l)), w,
               {l \in Under(index.links, dir) : ~Installed(SubSeq(l, Len(dir) + 1, Len(l)))})
  ELSE [w EXCEPT !.links = @ \cup Under(index.links, dir)]

(* The files a path stands for, in the order they are tried. *)
Candidates(base) ==
  <<base>>
  \o (IF base # <<>> /\ Last(base) = ".js" THEN <<Append(Front(base), ".ts"), Append(Front(base), ".tsx")>>
      ELSE <<>>)
  \o [i \in DOMAIN Resolved |-> Append(base, Resolved[i])]
  \o [i \in DOMAIN Resolved |-> base \o <<"index", Resolved[i]>>]

IncludeWhole(w, dir) ==
  IF Under(Files, dir) \cup Under(index.links, dir) = {} THEN Found(w, FALSE)
  ELSE Found(AddFiles(IncludeLinksUnder(w, dir), Under(Files, dir)), TRUE)

FirstCandidate(w, base) ==
  FoldLeft(LAMBDA v, c : IF v.found THEN v ELSE Include(v, c), Found(Note(w, base), FALSE),
           IF base.stopped THEN <<>> ELSE Candidates(base.path))

IncludeModule(w, base) ==
  IF w.found \/ base.stopped THEN Found(w, TRUE) ELSE IncludeWhole(w, base.path)

IncludeModuleAt(w, base) == IncludeModule(FirstCandidate(w, base), base)
IncludeModulePath(w, requested) == IncludeModuleAt(w, RealPath(requested))

(* A package is kept whole, and what it declares is followed. *)
RECURSIVE IncludeNodeModule(_, _, _)

Keep(w, real) ==
  LET linked == IncludeLinksUnder([Note(w, real) EXCEPT !.packages = @ \cup {real.path}], real.path)
  IN [linked EXCEPT !.files = @ \cup Under(Files, real.path)]

Declares(dir) ==
  IF dir \o Manifest \in Files THEN UNION {t.needs : t \in Texts(repo, dir \o Manifest)} ELSE {}

(* Mutant: what a package declares is not followed. *)
IncludePackageShallow(w, real) ==
  IF real.stopped \/ real.path \in w.packages THEN Found(Note(w, real), TRUE)
  ELSE IF Under(Files \cup index.links, real.path) = {} THEN Found(Note(w, real), FALSE)
  ELSE Found(Keep(w, real), TRUE)

IncludePackage(w, real) ==
  IF real.stopped \/ real.path \in w.packages THEN Found(Note(w, real), TRUE)
  ELSE IF Under(Files \cup index.links, real.path) = {} THEN Found(Note(w, real), FALSE)
  ELSE Found(FoldSet(LAMBDA n, v : IncludeNodeModule(v, real.path, n), Keep(w, real),
                     Declares(real.path)), TRUE)

LookFurther(w, dir, name) ==
  IF w.found \/ dir = <<>> THEN w ELSE IncludeNodeModule(w, Front(dir), name)

IncludeNodeModule(w, dir, name) ==
  LookFurther(IncludePackage(w, RealPath(dir \o <<"node_modules", name>>)), dir, name)

(* resolve: what a specifier of a file stands for. *)
Base(file, s) == SubSeq(Dir(file), 1, Len(Dir(file)) - s.up) \o s.path

Relative(w, file, s) ==
  IF s.up > Len(Dir(file)) THEN Unbounded(w, file, "MODULE_OUTSIDE_REPOSITORY")
  ELSE IncludeModulePath(w, Base(file, s))

(* A pattern with a star stands for what is below the name. *)
Matches(pattern, star, s) == pattern = s.name /\ star = (s.path # <<>>)

Matching(s) == {m \in index.mappings : Matches(m.pattern, m.star, s)}

Either(w, found) == Found(w, w.found \/ found)
IncludeMapped(w, s) ==
  FoldSet(LAMBDA m, v : Either(IncludeModulePath(v, m.target \o s.path), v.found),
          Found(w, FALSE), Matching(s))

(* A package of the workspace is kept whole and read as source; its        *)
(* installed link is on the way to it, too.                                *)
IncludeWorkspace(w, s, home) ==
  AddFiles(IncludeLinksUnder(IncludeModulePath(w, home \o s.path), home), Under(Files, home))

IncludeNamed(w, file, s) ==
  IncludeNodeModule(IF s.name \in DOMAIN index.workspaces
                    THEN IncludeWorkspace(w, s, index.workspaces[s.name]) ELSE w,
                    Dir(file), s.name)

(* Mutant: a mapping hides the installed package, links followed or not. *)
NamedUnlessMapped(w, file, s) == IF w.found THEN w ELSE IncludeNamed(w, file, s)

NamedToo(w, file, s) == IF w.found /\ ~FollowsLinks THEN w ELSE IncludeNamed(w, file, s)

(* The mappings of every tsconfig apply; a target outside the repository   *)
(* ends the resolution.                                                    *)
Bare(w, file, s) ==
  IF \E m \in Matching(s) : m.outside
  THEN Unbounded(w, file, "MODULE_OUTSIDE_REPOSITORY")
  ELSE NamedToo(IncludeMapped(w, s), file, s)

(* resolvePackageImport: the nearest manifest must map the alias to files  *)
(* of the repository, and every branch of the mapping is followed.         *)
Unsupported(w) == [w EXCEPT !.error = "TEST_CLOSURE_PACKAGE_IMPORT_UNSUPPORTED"]
Supported(w) == IF w.found THEN w ELSE Unsupported(w)

AliasIn(w, scope, s) ==
  LET entries(t) == {e \in t.imports : Matches(e.pattern, e.star, s)}
      targets(t) == UNION {e.targets : e \in entries(t)}
      texts == Texts(repo, scope \o Manifest)
  IN  IF \E t \in texts : targets(t) = {} \/ \E target \in targets(t) : target.up > 0
      THEN Unsupported(w)
      ELSE FoldSet(LAMBDA x, v : Supported(IncludeModulePath(v, scope \o x.path \o s.path)),
                   AddFile(w, scope \o Manifest), UNION {targets(t) : t \in texts})

Alias(w, file, s) ==
  LET scopes == {d \in Dirs(file) : d \o Manifest \in Files} IN
  IF scopes = {} THEN Unsupported(w)
  ELSE AliasIn(w, CHOOSE d \in scopes : \A other \in scopes : Len(d) >= Len(other), s)

Resolve(w, file, s) ==
  CASE s.kind = "provided" -> w
    [] s.kind = "alias" -> Alias(w, file, s)
    [] s.kind = "absolute" -> Unbounded(w, file, "ABSOLUTE_MODULE_SPECIFIER")
    [] s.kind = "relative" -> Relative(w, file, s)
    [] s.kind = "bare" -> Bare(w, file, s)

ResolveAll(w, file, specifiers) ==
  FoldSet(LAMBDA s, v : IF v.error # "none" THEN v ELSE Resolve(v, file, s), w, specifiers)

-----------------------------------------------------------------------------
(* computeTestClosure: one file of the queue. *)

(* A bunfig on the way: its preloads run before every test. *)
Preloads(w, found) ==
  LET texts == Texts(repo, found)
      seen == [w EXCEPT !.bunfigs = @ \cup {found}, !.jsx = @ \cup UNION {t.jsx : t \in texts},
                        !.unbounded = @ \cup {[file |-> found, reason |-> "TEST_PRELOAD_UNREADABLE"] :
                                                t \in {u \in texts : ~u.readable}}]
  IN  ResolveAll(seen, found, UNION {t.preloads : t \in texts})

PreloadsOnce(w, found) == IF found \in Files \ w.bunfigs THEN Preloads(w, found) ELSE w

(* Every directory up to the root may configure the file. *)
ConfigureFrom(w, d) ==
  PreloadsOnce(FoldLeft(LAMBDA v, name : Include(v, d \o name), w, <<Manifest, Tsconfig, Bunfig>>),
               d \o Bunfig)

(* Mutant: only the directory of the file configures it. *)
ConfigureNearest(w, file) == ConfigureFrom(w, Dir(file))

Configure(w, file) ==
  FoldLeft(LAMBDA v, n : IF v.error # "none" THEN v ELSE ConfigureFrom(v, SubSeq(Dir(file), 1, n)),
           w, [i \in 1 .. Len(Dir(file)) + 1 |-> Len(Dir(file)) + 1 - i])

(* The automatic runtime that a .tsx file imports. *)
Implicit(w, file, text) ==
  IF Last(file) # ".tsx" THEN {}
  ELSE {[kind |-> "bare", up |-> 0, name |-> n, path |-> <<"jsx-runtime">>] : n \in w.jsx \cup text.jsx}

(* Mutant: only what is written in the text is imported. *)
ImportsWritten(w, file) == UNION {t.specifiers : t \in Texts(repo, file)}

ImportsOf(w, file) == UNION {t.specifiers \cup Implicit(w, file, t) : t \in Texts(repo, file)}

ReadModule(w, file) ==
  IF \E t \in Texts(repo, file) : t.computed THEN Unbounded(w, file, "NON_LITERAL_MODULE_SPECIFIER") ELSE w

(* A configuration is read for those it extends, and they for theirs. *)
ReadConfiguration(w, before, file) ==
  IF file \in index.unresolved THEN [w EXCEPT !.error = "TEST_CLOSURE_TSCONFIG_EXTENDS_UNSUPPORTED"]
  ELSE [w EXCEPT !.compilers = @ \cup {f \in w.files \ before : Last(f) = ".json"}]

ScanText(w, file) ==
  IF IsProjectConfiguration(file) \/ file \in w.compilers
  THEN ReadConfiguration(ResolveAll(w, file, ExtendsOf(repo, file)), w.files, file)
  ELSE IF Last(file) \in ToSet(Scanned)
       THEN ReadModule(ResolveAll(w, file, ImportsOf(w, file)), file)
       ELSE w

ScanConfigured(w, file) == IF w.error # "none" THEN w ELSE ScanText(w, file)

ScanFile(w, file) == ScanConfigured(Configure([w EXCEPT !.scanned = @ \cup {file}], file), file)

-----------------------------------------------------------------------------
Running == [at |-> "walking", reason |-> "none", files |-> {}, directories |-> {}, links |-> {},
            unbounded |-> {}]
Refused(reason) == [Running EXCEPT !.at = "refused", !.reason = reason]
Planned(files, directories, links, unbounded) ==
  [Running EXCEPT !.at = "planned", !.files = files, !.directories = directories, !.links = links,
                  !.unbounded = unbounded]
Whole(links, unbounded) == Planned(repo.files, repo.directories, links, unbounded)

Start == [files |-> {}, links |-> {}, packages |-> {}, trees |-> {}, queue |-> <<>>, scanned |-> {},
          bunfigs |-> {}, compilers |-> {}, jsx |-> {"react"} \cup index.jsx, unbounded |-> {},
          found |-> FALSE, error |-> "none"]

External == index.links \ InternalLinks(repo)

(* The tests a runner finds by their name. *)
IsTest(p) == Len(p) > 1 /\ p[Len(p) - 1] = "test"

Roots ==
  IF repo.doctor THEN SetToSeq({f \in repo.files : IsTest(f) /\ ~Installed(f)}) ELSE repo.roots

(* linkReachesDiscoverableTest *)
ReachesTest(l) ==
  LET real == ReadThrough(index.links, [k \in InternalLinks(repo) |-> repo.links[k].path], l)
      named(f) == IsTest(l \o SubSeq(f, Len(real.path) + 1, Len(f)))
  IN  \/ IsTest(l)
      \/ /\ ~real.stopped
         /\ \/ Under(index.links, real.path) # {}
            \/ \E f \in Under(repo.files, real.path) : named(f)

Init ==
  /\ repo \in Repositories
  /\ index = IndexOf(repo)
  /\ walk = Start
  /\ plan = [Running EXCEPT !.at = "new"]

Ends(outcome) == plan' = outcome /\ UNCHANGED <<repo, index, walk>>

Walks ==
  /\ plan' = Running
  /\ walk' = FoldLeft(LAMBDA w, root : Include(w, root), walk, Roots)
  /\ UNCHANGED <<repo, index>>

(* assessRepositoryLinks, for a campaign up to version 4 and for doctor *)
Assess ==
  LET escaping == {l \in index.links : Escapes(repo, l)} IN
  /\ plan.at = "new" /\ repo.version = 4
  /\ \/ index.links = {} /\ Ends(Whole({}, {}))
     \/ escaping # {} /\ Ends(Refused("REPOSITORY_LINK_ESCAPES_ROOT"))
     \/ index.links # {} /\ escaping = {} /\ ~repo.rooted /\ Ends(Refused("TEST_CLOSURE_UNSUPPORTED"))
     \/ /\ index.links # {} /\ escaping = {} /\ repo.rooted
        /\ \/ /\ repo.doctor /\ \E l \in index.links : ReachesTest(l)
              /\ Ends(Refused("REPOSITORY_LINK_IN_TEST_CLOSURE"))
           \/ ~(repo.doctor /\ \E l \in index.links : ReachesTest(l)) /\ Walks

(* Mutant: no link is refused for an import nobody can follow. *)
AssessedBounded ==
  /\ plan.at = "walking" /\ repo.version = 4 /\ walk.queue = <<>> /\ walk.error = "none"
  /\ Ends(CASE walk.links # {} -> Refused("REPOSITORY_LINK_IN_TEST_CLOSURE")
            [] OTHER -> Whole({}, {}))

(* Doctor reports an unbounded closure, a campaign is refused for it. *)
Assessed ==
  /\ plan.at = "walking" /\ repo.version = 4 /\ walk.queue = <<>> /\ walk.error = "none"
  /\ Ends(CASE walk.links # {} -> Refused("REPOSITORY_LINK_IN_TEST_CLOSURE")
            [] walk.links = {} /\ walk.unbounded # {} /\ ~repo.doctor -> Refused("TEST_CLOSURE_UNBOUNDED")
            [] OTHER -> Whole({}, walk.unbounded))

(* planCampaignSnapshot: a structured command names no test. *)
RefuseExternal(l) ==
  Refused(CASE Escapes(repo, l) -> "REPOSITORY_LINK_ESCAPES_ROOT"
            [] ~Escapes(repo, l) /\ repo.rooted -> "REPOSITORY_LINK_IN_TEST_CLOSURE"
            [] OTHER -> "UNSUPPORTED_REPOSITORY_SYMLINK")

BeginPlan ==
  /\ plan.at = "new" /\ repo.version = 5
  /\ \/ repo.rooted /\ Walks
     \/ ~repo.rooted /\ \E l \in External : Ends(RefuseExternal(l))
     \/ ~repo.rooted /\ External = {} /\ Ends(Whole(index.links, {}))

ScanNext ==
  LET file == Head(walk.queue)
      rest == [walk EXCEPT !.queue = Tail(@)]
  IN  /\ plan.at = "walking" /\ walk.queue # <<>> /\ walk.error = "none"
      /\ walk' = IF file \in walk.scanned THEN rest ELSE ScanFile(rest, file)
      /\ UNCHANGED <<repo, index, plan>>

Throws == plan.at = "walking" /\ walk.error # "none" /\ Ends(Refused(walk.error))

Walked == plan.at = "walking" /\ repo.version = 5 /\ walk.queue = <<>> /\ walk.error = "none"

ReachesExternal ==
  Walked /\ \E l \in External \cap walk.links : Ends(RefuseExternal(l))

PlanRepository ==
  /\ Walked /\ repo.snapshot = "repository" /\ External \cap walk.links = {}
  /\ Ends(IF walk.unbounded # {} /\ External # {}
          THEN Refused("TEST_CLOSURE_UNBOUNDED")
          ELSE Whole(InternalLinks(repo), {}))

(* expandIncludedPaths: what is below a path, read through the links. *)
RECURSIVE Expand(_, _)

(* Mutant: a link below a path is kept, what it leads to is not. *)
ExpandShallow(acc, p) ==
  LET real == RealPath(p)
      noted == [acc EXCEPT !.links = @ \cup real.links, !.found = TRUE]
      below == Under(repo.files, real.path)
      links == Under(index.links, real.path)
      own == {real.path} \cap repo.files
      directories == Under(repo.directories, real.path) \cup ({real.path} \cap repo.directories)
      seen == [noted EXCEPT !.seen = @ \cup {real.path}, !.files = @ \cup below \cup own,
                            !.directories = @ \cup directories]
  IN  IF real.stopped \/ real.path \in acc.seen THEN noted
      ELSE IF below \cup links \cup own \cup directories = {} THEN Found(noted, FALSE)
      ELSE [seen EXCEPT !.links = @ \cup links]

Expand(acc, p) ==
  LET real == RealPath(p)
      noted == [acc EXCEPT !.links = @ \cup real.links, !.found = TRUE]
      below == Under(repo.files, real.path)
      links == Under(index.links, real.path)
      own == {real.path} \cap repo.files
      directories == Under(repo.directories, real.path) \cup ({real.path} \cap repo.directories)
      seen == [noted EXCEPT !.seen = @ \cup {real.path}, !.files = @ \cup below \cup own,
                            !.directories = @ \cup directories]
  IN  IF real.stopped \/ real.path \in acc.seen THEN noted
      ELSE IF below \cup links \cup own \cup directories = {} THEN Found(noted, FALSE)
      ELSE Found(FoldSet(LAMBDA l, v : Expand(v, l), seen, links), TRUE)

Expanded ==
  FoldSet(LAMBDA p, v : LET u == Expand(v, p) IN [u EXCEPT !.missing = @ \/ ~u.found],
          [files |-> {}, directories |-> {}, links |-> {}, seen |-> {}, found |-> TRUE,
           missing |-> FALSE],
          repo.include)

(* What a kept link to a directory leads to stays a directory. *)
Targets(links) ==
  LET ends == {repo.links[l].path : l \in links} IN
  {d \in repo.directories : d \in ends \/ \E e \in ends : Above(e, d)}

PlanClosure ==
  LET included == Expanded
      links == walk.links \cup included.links
  IN  /\ Walked /\ repo.snapshot = "test-closure" /\ External \cap walk.links = {}
      /\ \/ included.missing /\ Ends(Refused("REPOSITORY_INCLUDE_MISSING"))
         \/ ~included.missing /\ \E l \in External \cap links : Ends(RefuseExternal(l))
         \/ /\ ~included.missing /\ External \cap links = {}
            /\ Ends(Planned(((walk.files \cup repo.overlaid) \cap repo.files) \cup included.files,
                            included.directories \cup Targets(links), links, walk.unbounded))

Next ==
  \/ Assess \/ BeginPlan \/ ScanNext \/ Throws \/ Assessed
  \/ ReachesExternal \/ PlanRepository \/ PlanClosure

Spec == Init /\ [][Next]_vars

-----------------------------------------------------------------------------
(* The reference: what a runtime loads, in the repository and in the       *)
(* snapshot.  It applies the tsconfig that governs a file, takes the       *)
(* nearest installed package, and may load every file of a package.        *)

Outside == <<"outside">>
Tree(files, links, to) == [files |-> files, links |-> links, to |-> to]
Internal(links) == [l \in links |-> repo.links[l].path]
Source == Tree(Files, index.links, Internal(InternalLinks(repo)))
Executed == Tree(plan.files \cup repo.overlaid, plan.links, Internal(plan.links))

Opens(tree, p) ==
  LET real == ReadThrough(tree.links, tree.to, p) IN
  IF real.stopped THEN {Outside} ELSE {real.path} \cap tree.files

InDirectory(tree, p) ==
  LET real == ReadThrough(tree.links, tree.to, p) IN
  IF real.stopped THEN {Outside} ELSE Under(tree.files, real.path)

(* The first of the sets that is not empty. *)
FirstOf(sets) == FoldLeft(LAMBDA found, set : IF found = {} THEN set ELSE found, {}, sets)

ModuleAt(tree, p) ==
  FirstOf([i \in DOMAIN Candidates(p) |-> Opens(tree, Candidates(p)[i])] \o <<InDirectory(tree, p)>>)

PackageFor(tree, file, name) ==
  FirstOf([i \in 1 .. Len(Dir(file)) + 1 |->
             InDirectory(tree, SubSeq(Dir(file), 1, Len(Dir(file)) + 1 - i) \o <<"node_modules", name>>)])

(* The configurations that govern a file: the nearest, and what it extends. *)
Governs(tree, file) ==
  LET near == FirstOf([i \in 1 .. Len(Dir(file)) + 1 |->
                         Opens(tree, SubSeq(Dir(file), 1, Len(Dir(file)) + 1 - i) \o Tsconfig)])
      bases(set) == UNION {UNION {IF s.kind = "relative"
                                  THEN ModuleAt(tree, Base(c, s))
                                  ELSE PackageFor(tree, c, s.name) : s \in ExtendsOf(repo, c)} :
                             c \in set \ {Outside}}
  IN  Saturate(bases, near)

Mapped(tree, file, s) ==
  LET mappings == {m \in UNION {MappingsOf(repo, c) : c \in Governs(tree, file) \ {Outside}} :
                     Matches(m.pattern, m.star, s)}
  IN  UNION {ModuleAt(tree, m.target \o s.path) : m \in mappings}

AliasTargets(tree, file, s) ==
  LET manifests == FirstOf([i \in 1 .. Len(Dir(file)) + 1 |->
                              Opens(tree, SubSeq(Dir(file), 1, Len(Dir(file)) + 1 - i) \o Manifest)])
  IN  UNION {UNION {UNION {{ModuleAt(tree, Dir(f) \o t.path \o s.path) : t \in e.targets} :
                             e \in {e \in x.imports : Matches(e.pattern, e.star, s)}} :
                      x \in Texts(repo, f)} : f \in manifests}

Load(tree, file, s) ==
  CASE s.kind = "provided" -> {}
    [] s.kind = "alias" -> UNION AliasTargets(tree, file, s)
    [] s.kind = "absolute" -> {Outside}
    [] s.kind = "relative" -> IF s.up > Len(Dir(file)) THEN {Outside} ELSE ModuleAt(tree, Base(file, s))
    [] s.kind = "bare" -> FirstOf(<<Mapped(tree, file, s), PackageFor(tree, file, s.name)>>)

Jsx(tree, file, text) ==
  LET configured == UNION {UNION {t.jsx : t \in Texts(repo, c)} : c \in Governs(tree, file) \ {Outside}}
      sources == FirstOf(<<text.jsx, configured, {"react"}>>)
  IN  IF Last(file) = ".tsx" /\ ~Installed(file)
      THEN {[kind |-> "bare", up |-> 0, name |-> n, path |-> <<"jsx-runtime">>] : n \in sources} ELSE {}

(* A computed import may load whatever can be reached. *)
Loads(tree, file) ==
  (UNION {UNION {Load(tree, file, s) : s \in t.specifiers \cup t.preloads \cup Jsx(tree, file, t)} :
            t \in Texts(repo, file)})
  \cup (IF \E t \in Texts(repo, file) : t.computed
        THEN tree.files \cup tree.links \cup (IF DOMAIN tree.to # tree.links THEN {Outside} ELSE {})
        ELSE {})

(* What the tests and the preloads load, and so on. *)
Loaded(tree) ==
  LET roots == {f \in ToSet(Roots) : f \in tree.files}
      bunfigs == {d \o Bunfig : d \in UNION {Dirs(f) : f \in roots}} \cap tree.files
      step(set) == UNION {Loads(tree, f) : f \in set \cap tree.files}
  IN  Saturate(step, roots \cup bunfigs)

(* The files below a path, read through the links below it too. *)
Places(tree, p) ==
  LET real(q) == ReadThrough(tree.links, tree.to, q)
      step(set) == {real(l).path : l \in UNION {Under(tree.links, q) : q \in set}}
  IN  Saturate(step, {real(p).path})
Readable(tree, p) == {f \in tree.files : \E q \in Places(tree, p) : f = q \/ Above(q, f)}

-----------------------------------------------------------------------------
(* When every import could be followed, the executed tests load in the     *)
(* snapshot what they load in the repository: no link that was left out,   *)
(* no file outside the closure and no other file in its place.             *)
LoadsAreKept ==
  (plan.at = "planned" /\ plan.unbounded = {}) =>
    \A f \in Loaded(Source) : f \in Files => f \in Executed.files /\ Loads(Source, f) = Loads(Executed, f)

(* The walk has read every source it keeps, in whatever order it found     *)
(* them: none was added before, without being put in the queue.            *)
KeptIsScanned ==
  plan.at = "planned" =>
    \A f \in walk.files : (~Installed(f) /\ Last(f) \in ToSet(Scanned)) => f \in walk.scanned

(* What a test may read below an included path of the repository can be    *)
(* read there in the snapshot, through as many links; a directory without  *)
(* a file is there too.                                                    *)
IncludesAreWhole ==
  (plan.at = "planned" /\ repo.snapshot = "test-closure") =>
    \A p \in repo.include :
      /\ Readable(Source, p) = Readable(Executed, p)
      /\ \A q \in Places(Source, p) : {q} \cup Under(repo.directories, q) \subseteq
                                       plan.files \cup plan.directories

(* The executed tests find in the snapshot what they load and what they    *)
(* may read in the repository (computeTestClosure, test-closure.ts:665).      *)
TestsFindTheirFiles == LoadsAreKept /\ IncludesAreWhole
=============================================================================
