------------------------------ MODULE Injection -----------------------------
(***************************************************************************)
(* Content scripts (runtime/injection.rs): on each page-load event the     *)
(* main thread walks the registry and the dynamic registrations, keeps the *)
(* scripts of the phase, primes the frame once per document, and evaluates *)
(* MAIN-world scripts before ISOLATED ones.  Extensions are loaded and     *)
(* unloaded, and workers register and unregister scripts, meanwhile.       *)
(*                                                                         *)
(* A page neither leaves nor changes its URL while an event of it is on    *)
(* its way or handled: what becomes of an eval then is up to the webview.  *)
(***************************************************************************)
EXTENDS Naturals, SequencesExt

CONSTANTS
  Labels, BgLabels,  \* windows, and those of background workers
  Urls, Skipped,     \* URLs, and those whose scheme is not injected into
  Exts,
  Files, Missing,    \* script files, and those that cannot be read
  Rules,             \* the content_scripts of each extension
  Ids, Batches,      \* ids of registrations, and what one call registers
  None

RuleType  == [files : Seq(Files), at : {"start", "end", "idle"},
              world : {"main", "isolated"}, urls : SUBSET Urls]
EntryType == [id : Ids, rule : RuleType]
RequestType ==
  [ext : Exts, src : Ids \cup Nat, nth : Nat, file : Files,
   at : {"start", "end", "idle"}, world : {"main", "isolated"}]
DocType ==
  [url : Urls, moved : BOOLEAN, loaded : BOOLEAN, primed : {"no", "yes", "failed"},
   config : Exts \cup {None}, ran : Seq(RequestType), lost : SUBSET RequestType,
   sure : SUBSET (Exts \X (Ids \cup {"static"}))]
JobType ==
  [label : Labels, url : Urls, phase : {"start", "finish"},
   at : {"static", "dynamic", "prime", "inject"}, left : SUBSET Exts, reqs : Seq(RequestType)]

ASSUME InjectionAssumption ==
  /\ Rules \in [Exts -> Seq(RuleType)] /\ Batches \in [Exts -> SUBSET Seq(EntryType)]
  /\ None \notin Exts \cup DocType \cup JobType
  /\ "static" \notin Ids /\ Ids \cap Nat = {}

VARIABLES
  registry,   \* extensions in the ExtensionRegistry
  dynamic,    \* DynamicScriptStore.inner
  marks,      \* BootstrapTracker.bootstrapped
  doc,        \* the document each window shows
  events,     \* page-load events of each window, in order
  job         \* the page load the main thread is handling

vars == <<registry, dynamic, marks, doc, events, job>>

\* filter and retain: the elements of s that are in S, in the order of s.
Kept(s, S) ==
  LET kept[n \in 0 .. Len(s)] ==
        IF n = 0 THEN <<>> ELSE IF s[n] \in S THEN Append(kept[n - 1], s[n]) ELSE kept[n - 1]
  IN kept
Keep(s, S) == Kept(s, S)[Len(s)]

\* What a walk asks to evaluate: the nth file of a rule, or of a registration
\* by id.
RequestsOf(e, src, rule) ==
  LET listed == [n \in DOMAIN rule.files |->
        [ext |-> e, src |-> src, nth |-> n, file |-> rule.files[n],
         at |-> rule.at, world |-> rule.world]]
  IN Keep(listed, {r \in ToSet(listed) : r.file \notin Missing})

StaticRequests(e, u) ==
  FlattenSeq([n \in DOMAIN Rules[e] |->
    IF u \in Rules[e][n].urls THEN RequestsOf(e, n, Rules[e][n]) ELSE <<>>])

DynamicRequests(e, u) ==
  FlattenSeq([n \in DOMAIN dynamic[e] |->
    IF u \in dynamic[e][n].rule.urls
    THEN RequestsOf(e, dynamic[e][n].id, dynamic[e][n].rule) ELSE <<>>])

\* Mutant: document_end scripts run in both phases.
DueTwice(phase, reqs) ==
  Keep(reqs, {r \in ToSet(reqs) : IF phase = "start" THEN r.at # "idle" ELSE r.at # "start"})

\* document_end scripts ride along with document_idle ones.
Of(phase, r)     == r.at = "start" <=> phase = "start"
Due(phase, reqs) == Keep(reqs, {r \in ToSet(reqs) : Of(phase, r)})

\* Mutant: the order of the walk is the order of evaluation.
WalkOrder(reqs) == reqs

MainFirst(reqs) ==
  LET mains == {r \in ToSet(reqs) : r.world = "main"} IN
  Keep(reqs, mains) \o Keep(reqs, ToSet(reqs) \ mains)

-----------------------------------------------------------------------------
(* Documents.  primed: whether the content bootstrap ran; config: whom      *)
(* configure() was last called for; ran: the scripts evaluated; lost: those *)
(* whose eval failed; sure: the sources that were there when the document   *)
(* committed and have stayed since.                                         *)

IdsOf(s) == {x.id : x \in ToSet(s)}
UniqueIds(s) == \A m, n \in DOMAIN s : s[m].id = s[n].id => m = n

Sources == {<<e, "static">> : e \in registry}
           \cup UNION {{<<e, i>> : i \in IdsOf(dynamic[e])} : e \in Exts}

NewDocument(u) ==
  [url |-> u, moved |-> FALSE, loaded |-> FALSE, primed |-> "no", config |-> None,
   ran |-> <<>>, lost |-> {}, sure |-> Sources]

Init ==
  /\ registry = {} /\ dynamic = [e \in Exts |-> <<>>] /\ marks = {}
  /\ doc = [l \in Labels |-> None] /\ events = [l \in Labels |-> <<>>] /\ job = None

Handling(l) == job # None /\ job.label = l
Quiescent(l) == events[l] = <<>> /\ ~Handling(l)

\* A document commits, whether or not the one before has finished.
Navigate(l, u) ==
  /\ Quiescent(l)
  /\ doc' = [doc EXCEPT ![l] = NewDocument(u)]
  /\ events' = [events EXCEPT ![l] = <<"start">>]
  /\ UNCHANGED <<registry, dynamic, marks, job>>

Loaded(l) ==
  /\ doc[l] # None /\ ~doc[l].loaded
  /\ doc' = [doc EXCEPT ![l].loaded = TRUE]
  /\ events' = [events EXCEPT ![l] = Append(@, "finish")]
  /\ UNCHANGED <<registry, dynamic, marks, job>>

\* A page gives its document another URL through the history API.
Rewrite(l, u) ==
  /\ doc[l] # None /\ ~doc[l].loaded /\ Quiescent(l) /\ u # doc[l].url
  /\ doc' = [doc EXCEPT ![l].url = u, ![l].moved = TRUE]
  /\ UNCHANGED <<registry, dynamic, marks, events, job>>

Close(l) ==
  /\ doc[l] # None /\ Quiescent(l)
  /\ doc' = [doc EXCEPT ![l] = None]
  /\ UNCHANGED <<registry, dynamic, marks, events, job>>

-----------------------------------------------------------------------------
(* handle_page_load, one step per access to what other threads change. *)

Ignored(l) == l \in BgLabels \/ doc[l].url \in Skipped

IgnoreEvent(l) ==
  /\ events[l] # <<>> /\ job = None /\ Ignored(l)
  /\ events' = [events EXCEPT ![l] = Tail(@)]
  /\ UNCHANGED <<registry, dynamic, marks, doc, job>>

NewJob(l) ==
  [label |-> l, url |-> doc[l].url, phase |-> Head(events[l]), at |-> "static",
   left |-> Exts, reqs |-> <<>>]

\* Mutant: the mark of an earlier document at the same URL stays.
HandleMarked(l) ==
  /\ events[l] # <<>> /\ job = None /\ ~Ignored(l)
  /\ events' = [events EXCEPT ![l] = Tail(@)] /\ job' = NewJob(l)
  /\ UNCHANGED <<registry, dynamic, doc, marks>>

HandleEvent(l) ==
  /\ events[l] # <<>> /\ job = None /\ ~Ignored(l)
  /\ events' = [events EXCEPT ![l] = Tail(@)] /\ job' = NewJob(l)
  /\ marks' = IF Head(events[l]) = "start" THEN marks \ {<<l, doc[l].url>>} ELSE marks
  /\ UNCHANGED <<registry, dynamic, doc>>

At(s) == job # None /\ job.at = s

\* The two maps are walked in any order, an extension at a time.
WalkStatic(e) ==
  /\ At("static") /\ e \in job.left
  /\ job' = [job EXCEPT !.left = @ \ {e},
       !.reqs = IF e \in registry THEN @ \o StaticRequests(e, job.url) ELSE @]
  /\ UNCHANGED <<registry, dynamic, marks, doc, events>>

\* Mutant: a URL no manifest rule matches is left alone.
EndStaticEmpty ==
  /\ At("static") /\ job.left = {}
  /\ job' = IF job.reqs = <<>> THEN None ELSE [job EXCEPT !.left = Exts, !.at = "dynamic"]
  /\ UNCHANGED <<registry, dynamic, marks, doc, events>>

EndStatic ==
  /\ At("static") /\ job.left = {}
  /\ job' = [job EXCEPT !.left = Exts, !.at = "dynamic"]
  /\ UNCHANGED <<registry, dynamic, marks, doc, events>>

WalkDynamic(e) ==
  /\ At("dynamic") /\ e \in job.left
  /\ job' = [job EXCEPT !.left = @ \ {e}, !.reqs = @ \o DynamicRequests(e, job.url)]
  /\ UNCHANGED <<registry, dynamic, marks, doc, events>>

Select ==
  /\ At("dynamic") /\ job.left = {}
  /\ LET due == Due(job.phase, job.reqs) IN
     job' = IF due = <<>> THEN None ELSE [job EXCEPT !.at = "prime", !.reqs = MainFirst(due)]
  /\ UNCHANGED <<registry, dynamic, marks, doc, events>>

Frame == <<job.label, job.url>>

\* Mutant: a frame that ran scripts at document_start is primed again.
PrimeAgain ==
  /\ At("prime")
  /\ marks' = marks \cup {Frame} /\ job' = [job EXCEPT !.at = "inject"]
  /\ \E c \in {doc[job.label].config, job.reqs[1].ext} :
       doc' = [doc EXCEPT ![job.label].primed = "yes", ![job.label].config = c]
  /\ UNCHANGED <<registry, dynamic, events>>

\* The first script into the frame primes and configures it; that the eval of
\* configure() fails is ignored.
Prime ==
  /\ At("prime") /\ Frame \notin marks
  /\ marks' = marks \cup {Frame} /\ job' = [job EXCEPT !.at = "inject"]
  /\ \E c \in {doc[job.label].config, job.reqs[1].ext} :
       doc' = [doc EXCEPT ![job.label].primed = "yes", ![job.label].config = c]
  /\ UNCHANGED <<registry, dynamic, events>>

\* The bootstrap's eval fails: the mark stays and this event injects nothing.
PrimeFails ==
  /\ At("prime") /\ Frame \notin marks
  /\ marks' = marks \cup {Frame} /\ job' = None
  /\ doc' = [doc EXCEPT ![job.label].primed = "failed"]
  /\ UNCHANGED <<registry, dynamic, events>>

AlreadyPrimed ==
  /\ At("prime") /\ Frame \in marks /\ job' = [job EXCEPT !.at = "inject"]
  /\ UNCHANGED <<registry, dynamic, marks, doc, events>>

Advanced == IF Len(job.reqs) = 1 THEN None ELSE [job EXCEPT !.reqs = Tail(@)]

Eval ==
  /\ At("inject") /\ job' = Advanced
  /\ doc' = [doc EXCEPT ![job.label].ran = Append(@, job.reqs[1])]
  /\ UNCHANGED <<registry, dynamic, marks, events>>

\* A script whose eval fails does not keep the others from theirs.
EvalFails ==
  /\ At("inject") /\ job' = Advanced
  /\ doc' = [doc EXCEPT ![job.label].lost = @ \cup {job.reqs[1]}]
  /\ UNCHANGED <<registry, dynamic, marks, events>>

-----------------------------------------------------------------------------
(* What other threads do: the manager's projection and teardowns, and the  *)
(* scripting commands, which may land after their worker was stopped.      *)

DocsWithout(gone) ==
  [l \in Labels |-> IF doc[l] = None THEN None ELSE [doc[l] EXCEPT !.sure = @ \ gone]]

Upsert(e) ==
  /\ e \notin registry /\ registry' = registry \cup {e}
  /\ UNCHANGED <<dynamic, marks, doc, events, job>>

RemoveExt(e) ==
  /\ e \in registry /\ registry' = registry \ {e}
  /\ doc' = DocsWithout({<<e, "static">>})
  /\ UNCHANGED <<dynamic, marks, events, job>>

\* A batch with an id that is taken, or taken twice, is rejected whole.
Register(e, batch) ==
  /\ UniqueIds(batch) /\ IdsOf(batch) \cap IdsOf(dynamic[e]) = {}
  /\ dynamic' = [dynamic EXCEPT ![e] = @ \o batch]
  /\ UNCHANGED <<registry, marks, doc, events, job>>

\* unregister of some ids; of all of them it is also drop_extension.
Unregister(e, ids) ==
  /\ ids \cap IdsOf(dynamic[e]) # {}
  /\ dynamic' = [dynamic EXCEPT ![e] = Keep(@, {x \in ToSet(@) : x.id \notin ids})]
  /\ doc' = DocsWithout({<<e, i>> : i \in ids})
  /\ UNCHANGED <<registry, marks, events, job>>

-----------------------------------------------------------------------------

Handle ==
  \/ \E l \in Labels : IgnoreEvent(l) \/ HandleEvent(l)
  \/ \E e \in Exts : WalkStatic(e) \/ WalkDynamic(e)
  \/ EndStatic \/ Select \/ Prime \/ PrimeFails \/ AlreadyPrimed \/ Eval \/ EvalFails

Next ==
  \/ Handle
  \/ \E l \in Labels : Loaded(l) \/ Close(l) \/ \E u \in Urls : Navigate(l, u) \/ Rewrite(l, u)
  \/ \E e \in Exts : Upsert(e) \/ RemoveExt(e)
       \/ (\E b \in Batches[e] : Register(e, b)) \/ \E ids \in SUBSET Ids : Unregister(e, ids)

Spec == Init /\ [][Next]_vars

-----------------------------------------------------------------------------
(* Properties. *)

\* Every variable holds a value of its type, and a page load that goes on to
\* prime or to inject has a script to run.
TypeOK ==
  /\ registry \subseteq Exts /\ dynamic \in [Exts -> Seq(EntryType)]
  /\ marks \subseteq Labels \X Urls
  /\ events \in [Labels -> Seq({"start", "finish"})]
  /\ doc \in [Labels -> DocType \cup {None}] /\ job \in JobType \cup {None}
  /\ At("prime") \/ At("inject") => job.reqs # <<>>

Showing == {l \in Labels : doc[l] # None}

\* A script finds chrome and the event dispatch in its page: whatever was shown
\* at that URL before, the bootstrap was evaluated first, or failed to be.
PrimedFirst ==
  \A l \in Showing : doc[l].ran # <<>> /\ ~doc[l].moved => doc[l].primed # "no"

\* A script that hardens the realm never runs before a page provider of the
\* same phase, from whichever extension and table they come.
ProvidersFirst ==
  \A l \in Showing : \A m, n \in DOMAIN doc[l].ran :
    LET r == doc[l].ran[m] q == doc[l].ran[n] IN
    m < n /\ (r.at = "start" <=> q.at = "start") => ~(r.world = "isolated" /\ q.world = "main")

\* No script runs twice in a document, although each load is handled twice.
EachOnce == \A l \in Showing : IsInjective(doc[l].ran)

\* Once a load is handled, every script that was there all along ran or failed
\* to, whatever was registered, removed, missing or failed meanwhile.
Expected(l) ==
  UNION {(IF <<e, "static">> \in doc[l].sure THEN ToSet(StaticRequests(e, doc[l].url)) ELSE {})
         \cup {r \in ToSet(DynamicRequests(e, doc[l].url)) : <<e, r.src>> \in doc[l].sure} : e \in Exts}
AllInjected ==
  \A l \in Showing \ BgLabels :
    doc[l].loaded /\ Quiescent(l) /\ ~doc[l].moved /\ doc[l].url \notin Skipped
    /\ doc[l].primed # "failed"
    => Expected(l) \subseteq ToSet(doc[l].ran) \cup doc[l].lost

\* The identity chrome.runtime has in a page does not change under its scripts.
Commits(l) == events[l] = <<>> /\ events'[l] = <<"start">>
IdentityKept ==
  [][\A l \in Showing : doc[l].config # None /\ ~doc[l].moved /\ doc'[l] # None /\ ~Commits(l)
       => doc'[l].config = doc[l].config]_vars
=============================================================================
