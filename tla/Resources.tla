----------------------------- MODULE Resources -----------------------------
(***************************************************************************)
(* The extension-resource scheme (lib.rs, runtime/resources.rs) and the    *)
(* pages that load from it: the hidden window that boots an extension's    *)
(* worker from its own package, and web pages, which get what the manifest *)
(* declares.  The handler reads its tables one after the other while the   *)
(* lifecycle manager publishes, reloads and drops extensions, one call per *)
(* extension at a time.                                                    *)
(*                                                                         *)
(* A path is a sequence of segments; its slashes are not modelled.         *)
(***************************************************************************)
EXTENDS Naturals, SequencesExt

CONSTANTS
  Ids,        \* extension ids, sequences of characters
  Width,      \* how many characters of an id its window's label keeps
  Segments,   \* what a path is made of, ids included
  Up, Dot,    \* the segments ".." and "."
  Encoded,    \* what the URL parser makes of a segment
  Dirs,       \* directories holding unpacked extensions
  Packages,   \* what a directory may hold
  FirstDisk,  \* what the directories hold at first
  Refs,       \* how workers refer to their files
  Wanted,     \* what web pages ask extensions for
  Listeners,  \* a worker's listeners for onInstalled
  Page,       \* the web page
  None

\* Ids are hashes: nothing in a package is named like one.
Paths     == Seq(Segments \ Ids)
Addresses == Seq(Segments)

PackageType ==
  [id : Ids, entry : Paths, module : BOOLEAN, files : SUBSET (Paths \ {<<>>}), war : SUBSET Paths]
Root == [dir : Dirs, war : SUBSET Paths]

\* A worker writes its files relative to itself, from the root of its origin,
\* with getURL, or as its bundler does from the address of its document.
Kinds   == {"relative", "absolute", "geturl", "document"}
RefType == [kind : Kinds, path : Paths]

LabelOf(i) == SubSeq(i, 1, IF Len(i) < Width THEN Len(i) ELSE Width)
Labels     == {LabelOf(i) : i \in Ids}

Phases == {"gone", "rooted", "open", "ready", "closed", "unrooted"}
LifeType ==
  [phase : Phases, dir : Dirs \cup {None}, package : Packages \cup {None}, worker : BOOLEAN]
WindowType ==
  [ext : Ids \cup {None}, told : BOOLEAN, buffered : BOOLEAN,
   code : {"none", "start", "entry", "running", "import", "active", "failed"},
   early : SUBSET Listeners, listeners : SUBSET Listeners, heard : SUBSET Listeners]
WantType == [ext : Ids, kind : Kinds, rel : Paths]
ReqType ==
  [at : {"none", "label", "split", "root", "registry", "resolve", "check", "read", "done"},
   by : Labels \cup {Page, None}, wants : WantType \cup {None}, path : Addresses,
   owner : Ids \cup {None}, rel : Addresses, root : Root \cup {None}, own : BOOLEAN,
   answer : {0, 200, 400, 403, 404}, disturbed : BOOLEAN]

ASSUME ResourcesAssumption ==
  /\ Ids \subseteq Segments /\ {Up, Dot} \subseteq Segments \ Ids /\ Width \in Nat \ {0}
  /\ Encoded \in [Segments -> Segments] /\ \A s \in Ids \cup {Up, Dot} : Encoded[s] = s
  /\ \A s \in Segments \ Ids : Encoded[s] \notin Ids
  /\ Packages \subseteq PackageType /\ FirstDisk \in [Dirs -> Packages]
  /\ Refs \subseteq RefType /\ Wanted \subseteq Paths
  /\ None \notin Ids \cup Labels \cup Root \cup WantType /\ Page \notin Labels \cup {None}

VARIABLES
  disk,      \* the package each directory holds
  life,      \* each extension's place in its lifecycle, and the package parsed
  roots,     \* ResourceRegistry: what is served under each id
  registry,  \* ExtensionRegistry: what was projected for each id
  page,      \* the worker's page in each background window
  req        \* the request that is being handled (a bound: one at a time)
vars == <<disk, life, roots, registry, page, req>>

Gone   == [phase |-> "gone", dir |-> None, package |-> None, worker |-> FALSE]
NoPage == [ext |-> None, code |-> "none", told |-> FALSE, buffered |-> FALSE,
           early |-> {}, listeners |-> {}, heard |-> {}]
NoReq  == [at |-> "none", by |-> None, wants |-> None, path |-> <<>>, owner |-> None,
           rel |-> <<>>, root |-> None, own |-> FALSE, answer |-> 0, disturbed |-> FALSE]

Init ==
  /\ disk = FirstDisk
  /\ life = [i \in Ids |-> Gone]
  /\ roots = [i \in Ids |-> None] /\ registry = [i \in Ids |-> None]
  /\ page = [l \in Labels |-> NoPage] /\ req = NoReq

-----------------------------------------------------------------------------
(* Paths and URLs. *)

\* The URL parser takes ".." and "." out of a path.
Step(p, s) == IF s = Up THEN (IF p = <<>> THEN p ELSE Front(p))
              ELSE IF s = Dot THEN p ELSE Append(p, s)
Walked(p) ==
  LET walked[n \in 0 .. Len(p)] == IF n = 0 THEN <<>> ELSE Step(walked[n - 1], p[n])
  IN walked
Cleaned(p) == Walked(p)[Len(p)]
Encode(p)  == [n \in DOMAIN p |-> Encoded[p[n]]]
Plain(p)   == Encode(p) = p

\* sw_load_plan: a leading "./" is dropped, and the worker's directory is the
\* URL up to its last slash.
Entry(p)   == IF p.entry # <<>> /\ Head(p.entry) = Dot THEN Tail(p.entry) ELSE p.entry
BaseDir(p) == Front(Entry(p))

\* The path of the URL a worker's reference is requested at.  importScripts
\* moves an address of the document's to the scheme and keeps its path.
Requested(i, p, ref) ==
  CASE ref.kind = "relative" -> Cleaned(<<i>> \o BaseDir(p) \o ref.path)
    [] ref.kind = "geturl"   -> Cleaned(<<i>> \o ref.path)
    [] ref.kind \in {"absolute", "document"} -> Cleaned(ref.path)

\* What a browser, where the extension is the origin, would look for.
Meant(p, ref) ==
  IF ref.kind \in {"relative", "document"} THEN Cleaned(BaseDir(p) \o ref.path)
  ELSE Cleaned(ref.path)

\* Mutant: the id in a getURL address is not dropped.
KeepPrefix(i, path) == path

\* bg_request_rel
BgRequestRel(i, path) == IF Len(path) > 1 /\ Head(path) = i THEN Tail(path) ELSE path

Normal(rel) == rel # <<>> /\ \A n \in DOMAIN rel : rel[n] \notin {Up, Dot}

-----------------------------------------------------------------------------
(* The lifecycle manager, seen from here: publish the root, open the window, *)
(* project; close the window; drop the root, prune the projection.           *)

\* What happens to an extension while a request concerns it or its label.
Disturb(i) ==
  req' = IF req.wants # None /\ LabelOf(req.wants.ext) = LabelOf(i)
         THEN [req EXCEPT !.disturbed = TRUE] ELSE req

Enter(i, phase) == life' = [life EXCEPT ![i].phase = phase]
Publish(i, d, war) == roots' = [roots EXCEPT ![i] = [dir |-> d, war |-> war]]

\* A worker that is not declared or cannot be read is not spawned.
Readable(p) == p.entry # <<>> /\ Cleaned(Entry(p)) \in p.files

\* install and reload parse the directory's manifest.
Install(i, d) ==
  /\ life[i].phase \in {"gone", "closed"} /\ disk[d].id = i
  /\ life' = [life EXCEPT ![i] = [phase |-> "rooted", dir |-> d, package |-> disk[d],
                                  worker |-> Readable(disk[d])]]
  /\ Publish(i, d, disk[d].war) /\ Disturb(i)
  /\ UNCHANGED <<disk, registry, page>>

\* enable looks for the worker the directory declares now, and publishes and
\* spawns with the manifest parsed before.
Enable(i) ==
  /\ life[i].phase = "closed"
  /\ life' = [life EXCEPT ![i].phase = "rooted", ![i].worker = Readable(disk[life[i].dir])]
  /\ Publish(i, life[i].dir, life[i].package.war) /\ Disturb(i)
  /\ UNCHANGED <<disk, registry, page>>

\* A window that has the label already is adopted, whoever's it is.
OpenWindow(i) ==
  /\ life[i].phase = "rooted" /\ Enter(i, "open")
  /\ page' = IF life[i].worker /\ life[i].package.entry # <<>> /\ page[LabelOf(i)].ext = None
             THEN [page EXCEPT ![LabelOf(i)] = [NoPage EXCEPT !.ext = i, !.code = "start"]]
             ELSE page
  /\ UNCHANGED <<disk, roots, registry, req>>

Project(i) ==
  /\ life[i].phase = "open" /\ Enter(i, "ready")
  /\ registry' = [registry EXCEPT ![i] = [dir |-> life[i].dir, war |-> life[i].package.war]]
  /\ UNCHANGED <<disk, roots, page, req>>

\* Requests of a page that is gone are answered to nobody.
CloseWindow(i) ==
  /\ life[i].phase = "ready" /\ Enter(i, "closed")
  /\ page' = [page EXCEPT ![LabelOf(i)] = NoPage]
  /\ req' = IF req.by = LabelOf(i) THEN NoReq ELSE req
  /\ UNCHANGED <<disk, roots, registry>>

Unroot(i) ==
  /\ life[i].phase = "closed" /\ Enter(i, "unrooted")
  /\ roots' = [roots EXCEPT ![i] = None] /\ Disturb(i)
  /\ UNCHANGED <<disk, registry, page>>

Prune(i) ==
  /\ life[i].phase = "unrooted" /\ life' = [life EXCEPT ![i] = Gone]
  /\ registry' = [registry EXCEPT ![i] = None] /\ Disturb(i)
  /\ UNCHANGED <<disk, roots, page>>

EditPackage(d, p) ==
  /\ p.id = disk[d].id /\ p # disk[d]
  /\ disk' = [disk EXCEPT ![d] = p] /\ Disturb(p.id)
  /\ UNCHANGED <<life, roots, registry, page>>

-----------------------------------------------------------------------------
(* The handler. *)

Ask(by, i, kind, rel, path) ==
  /\ req.at = "none"
  /\ req' = [NoReq EXCEPT !.at = "label", !.by = by, !.path = Encode(path),
                          !.wants = [ext |-> i, kind |-> kind, rel |-> rel]]

Answer(code) == req' = [req EXCEPT !.at = "done", !.answer = code]
Handling(at) == req.at = at /\ UNCHANGED <<disk, life, roots, registry, page>>

\* Mutant: any root will do for a background window.
FindAnyRoot ==
  /\ Handling("label") /\ req.by \in Labels
  /\ \E i \in Ids : roots[i] # None /\
       req' = [req EXCEPT !.at = "resolve", !.owner = i, !.root = roots[i], !.own = TRUE,
                          !.rel = BgRequestRel(i, req.path)]

Labelled(l) == {i \in Ids : roots[i] # None /\ LabelOf(i) = l}

\* A background window is known by its label; of two ids with one label, the
\* map's order decides.
FindByLabel ==
  /\ Handling("label")
  /\ \E i \in Labelled(req.by) :
       req' = [req EXCEPT !.at = "resolve", !.owner = i, !.root = roots[i], !.own = TRUE,
                          !.rel = BgRequestRel(i, req.path)]

NoSuchLabel ==
  /\ Handling("label") /\ Labelled(req.by) = {}
  /\ req' = [req EXCEPT !.at = "split"]

BadPath == Handling("split") /\ Len(req.path) < 2 /\ Answer(400)

Split ==
  /\ Handling("split") /\ Len(req.path) > 1
  /\ req' = [req EXCEPT !.at = "root", !.rel = Tail(req.path),
                        !.owner = IF Head(req.path) \in Ids THEN Head(req.path) ELSE None]

\* Mutant: the projection is asked first.
StaleFirst ==
  /\ Handling("root") /\ req.owner # None /\ registry[req.owner] # None
  /\ req' = [req EXCEPT !.at = "resolve", !.root = registry[req.owner]]

GetRoot ==
  /\ Handling("root") /\ req.owner # None /\ roots[req.owner] # None
  /\ req' = [req EXCEPT !.at = "resolve", !.root = roots[req.owner]]

NoRoot ==
  /\ Handling("root") /\ (req.owner = None \/ roots[req.owner] = None)
  /\ req' = [req EXCEPT !.at = "registry"]

GetLoaded ==
  /\ Handling("registry") /\ req.owner # None /\ registry[req.owner] # None
  /\ req' = [req EXCEPT !.at = "resolve", !.root = registry[req.owner]]

NotLoaded ==
  /\ Handling("registry") /\ (req.owner = None \/ registry[req.owner] = None)
  /\ Answer(404)

\* The worker may read its whole package, everyone else what is declared.
Resolves == Normal(req.rel) /\ (req.own \/ req.rel \in req.root.war)
Resolve  == Handling("resolve") /\ Resolves /\ req' = [req EXCEPT !.at = "check"]
Refuse   == Handling("resolve") /\ ~Resolves /\ Answer(403)

OnDisk == req.rel \in disk[req.root.dir].files
Check  == Handling("check") /\ OnDisk /\ req' = [req EXCEPT !.at = "read"]
Read   == Handling("read") /\ OnDisk /\ Answer(200)
Miss   == \E at \in {"check", "read"} : Handling(at) /\ ~OnDisk /\ Answer(404)

-----------------------------------------------------------------------------
(* The worker's page. *)

PackageOf(l) == life[page[l].ext].package
SetPage(l, p) == page' = [page EXCEPT ![l] = p]

\* The loader runs once chrome is configured, and asks for the entry.
StartWorker(l) ==
  /\ page[l].code = "start"
  /\ Ask(l, page[l].ext, "relative", Cleaned(Entry(PackageOf(l))),
         Cleaned(<<page[l].ext>> \o Entry(PackageOf(l))))
  /\ SetPage(l, [page[l] EXCEPT !.code = "entry"])
  /\ UNCHANGED <<disk, life, roots, registry>>

\* Modules leave an address of the document's alone: it is not for the scheme.
Import(l, ref) ==
  /\ page[l].code = "running" /\ (PackageOf(l).module => ref.kind # "document")
  /\ Ask(l, page[l].ext, ref.kind, Meant(PackageOf(l), ref),
         Requested(page[l].ext, PackageOf(l), ref))
  /\ SetPage(l, [page[l] EXCEPT !.code = "import"])
  /\ UNCHANGED <<disk, life, roots, registry>>

\* A module is evaluated tasks later, when the configuration's promises are
\* settled; a status that is no success throws.
Loaded(l) ==
  /\ req.at = "done" /\ req.by = l
  /\ PackageOf(l).module => page[l].told
  /\ SetPage(l, [page[l] EXCEPT !.code = IF req.answer = 200 THEN "running" ELSE "failed"])
  /\ req' = NoReq
  /\ UNCHANGED <<disk, life, roots, registry>>

\* The end of the evaluation: install and activate are dispatched.
Activate(l) ==
  /\ page[l].code = "running" /\ SetPage(l, [page[l] EXCEPT !.code = "active"])
  /\ UNCHANGED <<disk, life, roots, registry, req>>

\* Mutant: an event nobody listens to is dropped.
TellNobody(l) ==
  /\ ~page[l].told
  /\ page[l].code \in IF page[l].ext # None /\ PackageOf(l).module THEN {"entry"}
                      ELSE {"active", "failed"}
  /\ SetPage(l, [page[l] EXCEPT !.told = TRUE, !.heard = page[l].listeners])
  /\ UNCHANGED <<disk, life, roots, registry, req>>

\* onInstalled is emitted in the microtasks after the page's script: after a
\* classic worker, which runs in that script, and before a module.
TellInstalled(l) ==
  /\ ~page[l].told
  /\ page[l].code \in IF page[l].ext # None /\ PackageOf(l).module THEN {"entry"}
                      ELSE {"active", "failed"}
  /\ SetPage(l, [page[l] EXCEPT !.told = TRUE, !.buffered = page[l].listeners = {},
                                !.heard = page[l].listeners])
  /\ UNCHANGED <<disk, life, roots, registry, req>>

\* The first listener gets what was emitted before it.
AddListener(l, x) ==
  /\ page[l].code \in {"running", "active"} /\ x \notin page[l].listeners
  /\ SetPage(l, [page[l] EXCEPT
       !.listeners = @ \cup {x}, !.buffered = FALSE,
       !.early = IF page[l].code = "running" THEN @ \cup {x} ELSE @,
       !.heard = IF page[l].buffered THEN @ \cup {x} ELSE @])
  /\ UNCHANGED <<disk, life, roots, registry, req>>

\* A web page asks for a file with the address its content script was given.
PageAsks(i, rel) ==
  /\ Ask(Page, i, "geturl", Cleaned(rel), Cleaned(<<i>> \o rel))
  /\ UNCHANGED <<disk, life, roots, registry, page>>

PageAnswered ==
  /\ req.at = "done" /\ req.by = Page /\ req' = NoReq
  /\ UNCHANGED <<disk, life, roots, registry, page>>

Handle ==
  \/ FindByLabel \/ NoSuchLabel \/ BadPath \/ Split \/ GetRoot \/ NoRoot \/ GetLoaded
  \/ NotLoaded \/ Resolve \/ Refuse \/ Check \/ Read \/ Miss

Worker(l) ==
  \/ StartWorker(l) \/ Loaded(l) \/ Activate(l) \/ TellInstalled(l)
  \/ \E ref \in Refs : Import(l, ref)
  \/ \E x \in Listeners : AddListener(l, x)

Manage(i) ==
  \/ \E d \in Dirs : Install(i, d)
  \/ Enable(i) \/ OpenWindow(i) \/ Project(i) \/ CloseWindow(i) \/ Unroot(i) \/ Prune(i)

Next ==
  \/ Handle
  \/ \E l \in Labels : Worker(l)
  \/ \E i \in Ids : Manage(i) \/ \E rel \in Wanted : PageAsks(i, rel)
  \/ PageAnswered
  \/ \E d \in Dirs, p \in Packages : EditPackage(d, p)

Spec == Init /\ [][Next]_vars

-----------------------------------------------------------------------------
(* Properties. *)

\* Every variable holds a value of its type, and a request that has a root
\* was given it by a table.
TypeOK ==
  /\ disk \in [Dirs -> Packages] /\ life \in [Ids -> LifeType]
  /\ {roots, registry} \subseteq [Ids -> Root \cup {None}]
  /\ page \in [Labels -> WindowType] /\ req \in ReqType
  /\ \A i \in Ids : life[i].phase # "gone" => life[i].dir \in Dirs /\ life[i].package \in Packages
  /\ \A l \in Labels : page[l].ext # None => LabelOf(page[l].ext) = l
  /\ req.at \in {"resolve", "check", "read"} => req.root \in Root

Served == req.at = "done" /\ req.answer = 200

\* Whatever is published, dropped or edited while a request is handled, a worker
\* reads what is not declared from a package of its own label only.
OwnPackage ==
  Served /\ req.by \in Labels /\ req.rel \notin req.root.war =>
    LabelOf(disk[req.root.dir].id) = req.by

\* Nothing changed while the request was handled, no other extension is known
\* by the label, and no name in it is changed by the URL parser.
Settled == req.at = "done" /\ ~req.disturbed
Alone(i) == \A j \in Ids : LabelOf(j) = LabelOf(i) => j = i \/ roots[j] = None
PlainReq == Plain(req.wants.rel)

\* The worker of a window finds the file its reference means to a browser, at
\* any depth and however it is written, from its first request on.  What a
\* bundler makes of the document's address is right at the package's root only.
WorkerFindsItsFiles ==
  Settled /\ req.by \in Labels /\ Alone(req.wants.ext) /\ PlainReq =>
    LET e == life[req.wants.ext] IN
      \/ req.wants.kind = "document" /\ BaseDir(e.package) # <<>>
      \/ IF req.wants.rel \in disk[e.dir].files
         THEN Served /\ req.rel = req.wants.rel /\ req.root.dir = e.dir
         ELSE ~Served

\* A web page gets a file exactly if its address does not climb out of the
\* extension's, the manifest last parsed declares the file and it is there, from
\* the first moment of an install to the last of an uninstall.
PagesGetDeclared ==
  Settled /\ req.by = Page /\ PlainReq =>
    LET e == life[req.wants.ext] IN
      Served <=> /\ req.path = <<req.wants.ext>> \o req.wants.rel /\ e.phase # "gone"
                 /\ req.wants.rel \in e.package.war \cap disk[e.dir].files

\* onInstalled, emitted once, is heard: by every listener a classic worker
\* adds while it is evaluated, and by the first one a module adds at any time.
InstalledHeard ==
  \A l \in Labels : page[l].told =>
    IF PackageOf(l).module THEN page[l].listeners # {} => page[l].heard # {}
    ELSE page[l].early \subseteq page[l].heard
=============================================================================
