------------------------------ MODULE MCFiles ------------------------------
(* The files of a repository: a snapshot of three entries, two of them in  *)
(* the same directory of the copy; a setup or a disconnection and one      *)
(* more; two publishers; two importers, the first with a witness of every  *)
(* kind below; and the closure of the tests over one tree of files and     *)
(* directories, a set of links at a time, and several texts for the test   *)
(* and for what it imports.                                                *)
EXTENDS RepositoryFiles, TestClosure

CONSTANTS p1, p2, p3, dir, i1

MCOrder == <<p1, p2, p3>>
MCParentOf == [p \in Entries |-> IF p = p1 THEN "root" ELSE dir]

-----------------------------------------------------------------------------
(* "a" and "b" may be targets; "t" is the test; "l" is a link.             *)
Target(path, base, content) == [path |-> path, base |-> base, content |-> content]

Witness ==
  [version |-> 1, provenance |-> 20, targets |-> <<Target("a", 1, 2)>>, neutral |-> None,
   attempts |-> 2, timeout |-> 5000, testTimeout |-> None, test |-> "t",
   repository |-> [dependencies |-> FALSE, exclude |-> {}, snapshot |-> "repository",
                   include |-> <<>>]]

Two == [Witness EXCEPT !.version = 2, !.targets = <<Target("a", 1, 0), Target("b", 1, 2)>>,
          !.neutral = [reason |-> 1001, files |-> <<[path |-> "b", content |-> 3]>>],
          !.attempts = 10, !.testTimeout = 4999,
          !.repository.snapshot = "test-closure", !.repository.include = <<"b">>]

MCWitnesses ==
  {Witness, Two,
   [Witness EXCEPT !.targets = <<Target("a", 1, 0)>>],              \* emptied
   [Two EXCEPT !.neutral.reason = 1002],                            \* too long beside " | "
   [Witness EXCEPT !.provenance = 513],
   [Witness EXCEPT !.targets = <<Target("a", 2, 3)>>],              \* another base
   [Witness EXCEPT !.targets = <<Target("a", 1, 1)>>],              \* unchanged
   [Witness EXCEPT !.targets = <<Target("l", 1, 2)>>],              \* a link
   [Witness EXCEPT !.targets = <<Target("..", 1, 2)>>],
   [Witness EXCEPT !.targets = <<Target("a", 1, 2), Target("a", 1, 3)>>],
   [Witness EXCEPT !.targets = <<Target("t", 1, 2)>>],              \* over the test
   [Witness EXCEPT !.testTimeout = 5000],
   [Two EXCEPT !.repository.include = <<"b", "b">>],
   [Witness EXCEPT !.repository.dependencies = TRUE, !.repository.exclude = {"node_modules"}]}

MCAtFirst == [path \in {"a", "b", "t", "l"} |-> IF path = "l" THEN None ELSE 1]

MCGivenImports ==
  {[i \in Importers |-> [witness |-> IF i = i1 THEN w ELSE Witness,
                         isolation |-> IF i = i1 THEN kind ELSE "container"]] :
     w \in MCWitnesses, kind \in {"container", "windows-native"}}

-----------------------------------------------------------------------------
Text == [specifiers |-> {}, computed |-> FALSE, jsx |-> {}, name |-> "", needs |-> {},
         imports |-> {}, extends |-> {}, paths |-> {}, preloads |-> {}, readable |-> TRUE]

Spec_(kind, up, name, path) == [kind |-> kind, up |-> up, name |-> name, path |-> path]
Local(up, path) == Spec_("relative", up, "", path)
Package(name) == Spec_("bare", 0, name, <<>>)

Test == <<"t", "test", ".ts">>
View == <<"src", "view", ".tsx">>
Util == <<"pkg", "util">>

(* The imports of the test, one set at a time. *)
Imports ==
  { {Local(1, <<"src", "x">>)}, {Local(1, <<"src", "y", ".js">>)}, {Local(1, <<"src", "dir">>)},
    {Local(1, <<"pkg", "util">>), Package("lib")}, {Local(1, <<"ln", "absent">>)},
    {Package("lib"), Package("missing")}, {Package("util"), Spec_("provided", 0, "fs", <<>>)},
    {Spec_("bare", 0, "@app", <<"x">>)}, {Spec_("bare", 0, "@out", <<>>)},
    {Spec_("alias", 0, "#x", <<>>)}, {Spec_("alias", 0, "#none", <<>>)},
    {Spec_("absolute", 0, "", <<>>)}, {Local(2, <<"out">>)},
    {Local(1, <<"src", "view">>)}, {Local(0, <<"data", "f">>)} }

(* The imports of src/x, and what else is unlike the usual repository. *)
Usual == [imports |-> {Local(0, <<"dir">>)}, twist |-> "none"]
Variants ==
  { Usual, [Usual EXCEPT !.imports = {Package("lib")}],
    [Usual EXCEPT !.imports = {Local(1, <<"ln">>), Package("util")}],
    [Usual EXCEPT !.twist = "computed"], [Usual EXCEPT !.twist = "directive"],
    [Usual EXCEPT !.twist = "extends"], [Usual EXCEPT !.twist = "preload"],
    [Usual EXCEPT !.twist = "overlay"] }

To(path) == [inside |-> TRUE, path |-> path]
Out == [inside |-> FALSE, path |-> <<>>]
NoLinks == [l \in {} |-> Out]

Linkings ==
  { NoLinks,
    (<<"node_modules", "util">> :> To(Util)),
    (<<"node_modules", "util">> :> To(Util)) @@ (<<"t", "data">> :> Out),
    (<<"ln">> :> To(<<"src", "dir">>)) @@ (<<"pkg", "data">> :> To(<<"nowhere">>)),
    (<<"ln">> :> To(<<"ln2">>)) @@ (<<"ln2">> :> To(<<"src", "dir">>)),
    (<<"t", "data">> :> To(<<"data">>)) @@ (<<"data", "back">> :> To(<<"t">>)),
    (<<"ln", ".ts">> :> To(<<"src", "y", ".ts">>)) @@ (<<"loop">> :> To(<<"loop", "a">>)),
    (<<"src", "dir", "deep">> :> To(<<"pkg", "util">>)) @@ (<<"src", "other">> :> Out),
    (<<"node_modules", "lib", "own">> :> To(<<"data">>)),
    (<<"tsconfig", ".json">> :> To(<<"conf", "base", ".json">>)) }

X == <<"src", "x", ".ts">>
SourceTsconfig == <<"src">> \o Tsconfig

Usually ==
  (Test :> Text) @@ (X :> Text) @@ (View :> Text)
  @@ (<<"src", "y", ".ts">> :> [Text EXCEPT !.specifiers = {Local(0, <<"z">>)}])
  @@ (<<"src", "z", ".js">> :> Text)
  @@ (<<"src", "dir", "index", ".ts">> :> [Text EXCEPT !.specifiers = {Local(1, <<"y">>)}])
  @@ (<<"data", "f", ".json">> :> Text) @@ (<<"t", "fixture", ".json">> :> Text)
  @@ (Manifest :> [Text EXCEPT !.imports =
       {[pattern |-> "#x", star |-> FALSE,
         targets |-> {[up |-> 0, path |-> X], [up |-> 0, path |-> <<"src", "z", ".js">>]}]}])
  @@ (Tsconfig :> [Text EXCEPT !.extends = {Local(0, <<"conf", "base">>)},
       !.paths = {[pattern |-> "@out", star |-> FALSE, up |-> 1, path |-> <<"out">>]}])
  @@ (<<"conf", "base", ".json">> :> [Text EXCEPT !.jsx = {"view"},
       !.paths = {[pattern |-> "@app", star |-> TRUE, up |-> 1, path |-> <<"src">>]}])
  @@ (SourceTsconfig :> [Text EXCEPT !.extends = {Local(1, <<"conf", "base">>)},
       !.paths = {[pattern |-> "lib", star |-> FALSE, up |-> 0, path |-> <<"z">>]}])
  @@ (Bunfig :> Text)
  @@ (<<"pre", ".ts">> :> [Text EXCEPT !.specifiers = {Package("dep")}])
  @@ (Util \o Manifest :> [Text EXCEPT !.name = "util", !.needs = {"lib"}])
  @@ (Util \o <<"index", ".ts">> :>
       [Text EXCEPT !.specifiers = {Local(2, <<"src", "z", ".js">>), Package("lib")}])
  @@ (<<"node_modules", "lib">> \o Manifest :> [Text EXCEPT !.needs = {"dep"}])
  @@ (<<"node_modules", "lib", "index", ".js">> :> [Text EXCEPT !.specifiers = {Package("dep")}])
  @@ (<<"node_modules", "dep">> \o Manifest :> Text)
  @@ (<<"node_modules", "dep", "index", ".js">> :> Text)
  @@ (<<"node_modules", "view", "jsx-runtime", ".js">> :> Text)
  @@ (<<"node_modules", "other", "jsx-runtime", ".js">> :> Text)

(* Without a link that is followed, a mapping of another tsconfig hides    *)
(* the installed package; a tsconfig that is a link is not read for its    *)
(* mappings unless another one extends what it leads to.  None of the      *)
(* repositories is one where that happens.                                 *)
TextsOf(f, linked, imports, variant) ==
  CASE f = Test -> {[Text EXCEPT !.specifiers = imports]}
    [] f = X -> {[Text EXCEPT !.specifiers = variant.imports, !.computed = variant.twist = "computed"]}
                \cup (IF variant.twist = "overlay" THEN {[Text EXCEPT !.specifiers = {Package("lib")}]} ELSE {})
    [] f = View -> {[Text EXCEPT !.jsx = IF variant.twist = "directive" THEN {"other"} ELSE {}]}
    [] f = Bunfig -> {[Text EXCEPT !.readable = variant.twist # "preload",
                                   !.preloads = IF variant.twist = "directive" THEN {Local(0, <<"pre", ".ts">>)} ELSE {}]}
    [] f = SourceTsconfig ->
         {[Usually[f] EXCEPT !.paths = IF linked = NoLinks THEN {} ELSE @,
                             !.extends = IF variant.twist = "extends" /\ Tsconfig \notin DOMAIN linked
                                         THEN {Package("gone")} ELSE @]}
    [] OTHER -> {Usually[f]}

Repository(asked, linked, imports, variant) ==
  LET present == DOMAIN Usually \ DOMAIN linked
      test == IF variant.twist = "overlay" THEN {} ELSE {Test}
  IN  [version |-> asked.version, doctor |-> asked.doctor, rooted |-> asked.rooted,
       snapshot |-> asked.snapshot, include |-> asked.include,
       files |-> (present \ {Test}) \cup test, overlaid |-> {Test}, links |-> linked,
       texts |-> [f \in present |-> TextsOf(f, linked, imports, variant)],
       directories |-> ((UNION {Dirs(f) : f \in present}) \ {<<>>}) \cup {<<"hollow">>, <<"data", "none">>},
       roots |-> <<Test>>]

Campaign(schema, kept, include) ==
  [version |-> schema, doctor |-> FALSE, rooted |-> TRUE, snapshot |-> kept, include |-> include]
Requests ==
  { Campaign(4, "repository", {}), [Campaign(4, "repository", {}) EXCEPT !.doctor = TRUE],
    Campaign(5, "repository", {}), Campaign(5, "test-closure", {<<"data">>, <<"hollow">>}) }
Others ==
  { [Campaign(4, "repository", {}) EXCEPT !.rooted = FALSE],
    [Campaign(5, "repository", {}) EXCEPT !.rooted = FALSE],
    Campaign(5, "test-closure", {<<"gone">>}), Campaign(5, "test-closure", {<<"src">>, <<"t", "data">>}) }

MCRepositories ==
  {Repository(q, l, i, v) : q \in Requests, l \in Linkings, i \in Imports, v \in Variants}
  \cup {Repository(q, l, {Package("lib")}, Usual) : q \in Others, l \in Linkings}

(* An installed package depends on a package of the workspace, which a     *)
(* second test imports itself.                                             *)
Second == <<"t2", "test", ".ts">>
WithPlugin ==
  LET usual == Repository(Campaign(5, "test-closure", {}), (<<"node_modules", "util">> :> To(Util)),
                          {Package("lib")}, Usual)
  IN  [usual EXCEPT !.files = @ \cup {Second}, !.roots = <<Test, Second>>,
         !.texts = [@ EXCEPT ![<<"node_modules", "lib">> \o Manifest] = {[Text EXCEPT !.needs = {"util"}]}]
                   @@ (Second :> {[Text EXCEPT !.specifiers = {Package("util")}]})]
PluginRepositories == {WithPlugin, [WithPlugin EXCEPT !.roots = <<Second, Test>>]}

MCHopLimit == 4

-----------------------------------------------------------------------------
closureVars == <<repo, index, walk, plan>>

(* A component that does not run stays in one initial state, or has no     *)
(* repository.                                                             *)
MCInit ==
  /\ FilesInit \/ (NothingDone /\ component = "closure")
  /\ component # "snapshot" => version = 3 /\ source = [p \in Entries |-> N!File(1)]
  /\ component # "setup" => disk = [p \in S!Paths |-> S!File("absent", "other")]
  /\ component # "import" => given = [i \in Importers |-> [witness |-> Witness, isolation |-> "container"]]
  /\ \/ component = "closure" /\ Init
     \/ /\ component # "closure"
        /\ repo = "none" /\ index = "none" /\ walk = "none" /\ plan = [at |-> "none"]

MCNext ==
  \/ FilesNext /\ UNCHANGED closureVars
  \/ component = "closure" /\ Next /\ UNCHANGED filesVars

MCFilesSpec == MCInit /\ [][MCNext]_<<filesVars, closureVars>>

(* Only setup. *)
SetupSpec == MCInit /\ component = "setup" /\ [][MCNext]_<<filesVars, closureVars>>

(* Only the closure. *)
ClosureSpec == MCInit /\ component = "closure" /\ [][MCNext]_<<filesVars, closureVars>>
=============================================================================
