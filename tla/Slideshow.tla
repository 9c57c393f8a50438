------------------------------ MODULE Slideshow ------------------------------
(***************************************************************************)
(* src/src/ticker/slideshow.rs: the task that shows the photos of the SD   *)
(* card, one after the other, on the one background buffer BG which        *)
(* render_task copies into every frame at the brightness LEVEL.            *)
(*                                                                         *)
(* Around it: the settings page, served by jobs_task, which shares the     *)
(* card through SD_LOCK, changes LIVE and asks for RELOAD; and the update  *)
(* check of the same jobs_task, which stops the show with PAUSE.  All      *)
(* tasks share one cooperative executor: an action here is what happens    *)
(* between two awaits.                                                     *)
(***************************************************************************)
EXTENDS Integers, Sequences, FiniteSets, SequencesExt

CONSTANTS
    Photo,          \* the 8.3 names of photos; numbers, in the order of names
    MAX_IMAGES,     \* the longest list
    Layout,         \* screen layouts
    FrameMs,        \* a frame of the fades, in ms
    Cards,          \* the cards to start with: [Photo -> {"ok", "bad", "none"}]
    Clocks,         \* what the card can do: subset of {"good", "slow", "flaky"}
    Settings,       \* values of LIVE that the page may save
    Changing        \* the photos it may delete and add

FADE_OUT_MS == 500
FADE_IN_MS == 700
LOADING_LEVEL == 7

None == 0           \* `shown` when nothing of the list is on the screen
GRADIENT == 0       \* what BG holds that is not a photo: the default, or
PARTIAL == -1       \* a background that is being overwritten
NoLayout == "none"  \* `layout` out of its scope, the round of one photo

VARIABLES
    pc,             \* where slideshow_task is
    fade_ms,        \* since the fade began
    list, index, shown, failures, fast, layout,     \* its locals
    START, PAUSE, RELOAD, FIRST_DONE, LEVEL, LIVE,  \* the statics
    BG,             \* [what, layout]: a photo, GRADIENT or PARTIAL
    SD_LOCK,        \* "free", "show" or "page"
    hold,           \* HOLD_UNTIL_MS lies ahead
    card, sd,       \* the photos on the card; what the card can do
    page,           \* what the page does with the card, see Jobs
    fresh           \* history: the list was read without an error, and no
                    \* request that failed has changed the card since

locals == <<list, index, shown, failures, fast, layout>>
page_vars == <<page, card, LIVE, hold>>
vars == <<pc, fade_ms, locals, START, PAUSE, RELOAD, FIRST_DONE, LEVEL, BG,
          SD_LOCK, sd, page_vars, fresh>>

Lists == SeqOf(Photo, MAX_IMAGES)
Lives == [interval: Nat, images: Lists, layout: Layout]
ASSUME SlideshowAssumption ==
    /\ Photo \subseteq Nat \ {0} /\ IsFiniteSet(Photo) /\ Changing \subseteq Photo
    /\ MAX_IMAGES \in Nat \ {0}
    /\ FrameMs \in Nat \ {0}
    /\ Cards \subseteq [Photo -> {"ok", "bad", "none"}]
    /\ Clocks \subseteq {"good", "slow", "flaky"}
    /\ Settings \subseteq Lives

(* What the page does: nothing; wait for SD_LOCK, or hold it, in order to  *)
(* read photos, delete one, add one, or save ticker.txt.  `reload`: RELOAD *)
(* is set once this save is done.                                          *)
Idle == [at |-> "idle"]
Jobs == [do: {"read"}] \cup [do: {"delete", "upload"}, photo: Photo]
          \cup [do: {"save"}, live: Lives, reload: BOOLEAN]
AnyJob == [do |-> "any"]    \* a request, told apart once it has the card
Pages == {Idle} \cup [at: {"waiting", "using"}, job: Jobs \cup {AnyJob}]

Places == {"delay", "start", "relist", "quiet list", "lock list", "empty",
           "unpaused", "quiet", "fade out", "lock", "reading", "frame",
           "fade in", "rest", "all failed", "stopped"}
(* Where the task goes by the list it has read.                            *)
Listed == Places \ {"delay", "start", "relist", "quiet list", "lock list"}

-----------------------------------------------------------------------------
(* ui/slide.rs                                                             *)

Lesser(a, b) == IF a < b THEN a ELSE b
ease(t256) == LET t == Lesser(t256, 256)
              IN (3 * t * t * 256 - 2 * t * t * t) \div (256 * 256)
fade_out_level(ms) ==
    32 - ((32 - LOADING_LEVEL) * ease((Lesser(ms, FADE_OUT_MS) * 256) \div FADE_OUT_MS)) \div 256
fade_in_level(ms) ==
    LOADING_LEVEL + ((32 - LOADING_LEVEL) * ease((Lesser(ms, FADE_IN_MS) * 256) \div FADE_IN_MS)) \div 256

-----------------------------------------------------------------------------
(* What the card answers.                                                  *)

(* list_root_bmps: at most MAX_IMAGES of the photos in the root, as they   *)
(* come, then sorted.                                                      *)
InRoot == {p \in Photo : card[p] # "none"}
RootBmps ==
    {found \in Lists :
        /\ Len(found) = Lesser(Cardinality(InRoot), MAX_IMAGES)
        /\ \A i \in DOMAIN found : found[i] \in InRoot
        /\ \A i, j \in DOMAIN found : i < j => found[i] < found[j]}
(* Io errors: never, always at the fast clock, or at any time.             *)
MayErr == sd = "flaky" \/ (sd = "slow" /\ fast)
MayWork == sd # "slow" \/ ~fast

Gradient(l) == [what |-> GRADIENT, layout |-> l]
Partial == [what |-> PARTIAL, layout |-> layout]

-----------------------------------------------------------------------------
(* slideshow_task.                                                         *)

CardIsFree == SD_LOCK = "free"
Goes(from, to) == pc = from /\ pc' = to
Keeps == UNCHANGED <<START, PAUSE, sd, page_vars>>

(* With sdfast=0 the task begins as it does here after its first Io error; *)
(* on a board that has no second slot START is set at once, here by a      *)
(* first check that ends early.                                            *)
Init ==
    /\ pc = "delay" /\ fade_ms = 0
    /\ list = <<>> /\ index = 1 /\ shown = None /\ failures = 0
    /\ fast = TRUE
    /\ START = FALSE /\ PAUSE = FALSE /\ RELOAD = FALSE
    /\ FIRST_DONE = FALSE /\ LEVEL = 32
    /\ LIVE \in Settings /\ layout = NoLayout /\ BG = Gradient(LIVE.layout)
    /\ SD_LOCK = "free" /\ hold = FALSE
    /\ card \in Cards /\ sd \in Clocks
    /\ page = Idle /\ fresh = TRUE

(* The first 1.5 s are over.                                               *)
Delayed ==
    /\ Goes("delay", "start")
    /\ Keeps /\ UNCHANGED <<fade_ms, locals, RELOAD, FIRST_DONE, LEVEL, BG,
                            SD_LOCK, fresh>>

(* START is set, or start_by has passed.                                   *)
Starts ==
    /\ Goes("start", "relist")
    /\ Keeps /\ UNCHANGED <<fade_ms, locals, RELOAD, FIRST_DONE, LEVEL, BG,
                            SD_LOCK, fresh>>

Relist ==
    /\ Goes("relist", "quiet list")
    /\ RELOAD' = FALSE
    /\ Keeps /\ UNCHANGED <<fade_ms, locals, FIRST_DONE, LEVEL, BG,
                            SD_LOCK, fresh>>

NothingToShow ==
    BG' = Gradient(LIVE.layout) /\ pc' = "empty" /\ FIRST_DONE' = TRUE

(* The list is known: begin with its first photo, or show the gradient and *)
(* wait for a reload.                                                      *)
HasList(found) ==
    /\ list' = found
    /\ IF found = <<>>
       THEN /\ NothingToShow
            /\ UNCHANGED <<index, shown, failures>>
       ELSE /\ index' = 1 /\ shown' = None /\ failures' = 0
            /\ pc' = "unpaused"
            /\ UNCHANGED <<BG, FIRST_DONE>>

(* image_list with images= set needs no card.                              *)
ListIsSet ==
    /\ pc = "quiet list" /\ ~hold
    /\ LIVE.images # <<>>
    /\ HasList(LIVE.images)
    /\ fresh' = TRUE
    /\ Keeps /\ UNCHANGED <<fade_ms, fast, layout, RELOAD, LEVEL, SD_LOCK>>
ListNeedsCard ==
    /\ pc = "quiet list" /\ ~hold
    /\ LIVE.images = <<>>
    /\ pc' = "lock list"
    /\ Keeps /\ UNCHANGED <<fade_ms, locals, RELOAD, FIRST_DONE, LEVEL, BG,
                            SD_LOCK, fresh>>
(* The root is fresh without an await: the lock is taken and given back. *)
ScanRoot ==
    /\ pc = "lock list" /\ CardIsFree
    /\ \/ MayWork /\ (\E found \in RootBmps : HasList(found)) /\ fresh' = TRUE
       \/ MayErr /\ HasList(<<>>) /\ fresh' = FALSE
    /\ Keeps /\ UNCHANGED <<fade_ms, fast, layout, RELOAD, LEVEL, SD_LOCK>>

(* continue 'relist: the locals of the list go out of scope.               *)
ToRelist ==
    /\ pc' = "relist"
    /\ list' = <<>> /\ index' = 1 /\ shown' = None /\ failures' = 0
    /\ fresh' = TRUE
(* A reload ends each of these waits, two of them only a reload.           *)
Reload ==
    /\ pc \in {"empty", "stopped", "rest", "all failed"} /\ RELOAD
    /\ ToRelist
    /\ Keeps /\ UNCHANGED <<fade_ms, fast, layout, RELOAD, FIRST_DONE, LEVEL,
                            BG, SD_LOCK>>
(* The end of the interval, or of the minute after a list of failures.     *)
Rested ==
    /\ pc \in {"rest", "all failed"} /\ ~RELOAD
    /\ pc' = "unpaused"
    /\ Keeps /\ UNCHANGED <<fade_ms, locals, RELOAD, FIRST_DONE, LEVEL, BG,
                            SD_LOCK, fresh>>

(* wait_unpaused and wait_web_quiet go on at once when there is nothing to *)
(* wait for.                                                               *)
BeginsSwitch ==
    IF RELOAD THEN ToRelist
    ELSE pc' = "fade out" /\ UNCHANGED <<list, index, shown, failures, fresh>>
Unpaused ==
    /\ pc = "unpaused" /\ ~PAUSE
    /\ IF hold THEN pc' = "quiet" /\ UNCHANGED <<list, index, shown, failures, fresh>>
               ELSE BeginsSwitch
    /\ Keeps /\ UNCHANGED <<fade_ms, fast, layout, RELOAD, FIRST_DONE, LEVEL, BG, SD_LOCK>>
Quiet ==
    /\ pc = "quiet" /\ ~hold
    /\ BeginsSwitch
    /\ Keeps /\ UNCHANGED <<fade_ms, fast, layout, RELOAD, FIRST_DONE, LEVEL, BG, SD_LOCK>>

NextIndex == (index % Len(list)) + 1

(* A frame of a fade; frames may come late.                                *)
FadeOut ==
    /\ pc = "fade out"
    /\ \E ms \in {fade_ms + FrameMs, fade_ms + 2 * FrameMs} :
         IF ms < FADE_OUT_MS
         THEN /\ fade_ms' = ms /\ LEVEL' = fade_out_level(ms)
              /\ UNCHANGED <<pc, layout>>
         ELSE /\ fade_ms' = 0 /\ LEVEL' = LOADING_LEVEL
              /\ layout' = LIVE.layout
              /\ pc' = "lock"
    /\ Keeps /\ UNCHANGED <<list, index, shown, failures, fast, RELOAD,
                            FIRST_DONE, BG, SD_LOCK, fresh>>
AfterPhoto ==
    IF failures >= Len(list) THEN "all failed"
    ELSE IF shown = None THEN "unpaused"
    ELSE IF Len(list) = 1 \/ LIVE.interval = 0 THEN "stopped" ELSE "rest"
FadeIn ==
    /\ pc = "fade in"
    /\ \E ms \in {fade_ms + FrameMs, fade_ms + 2 * FrameMs} :
         IF ms < FADE_IN_MS
         THEN /\ fade_ms' = ms /\ LEVEL' = fade_in_level(ms)
              /\ UNCHANGED <<pc, index, failures, layout>>
         ELSE /\ fade_ms' = 0 /\ LEVEL' = 32 /\ layout' = NoLayout
              /\ index' = NextIndex
              /\ failures' = IF failures >= Len(list) THEN 0 ELSE failures
              /\ pc' = AfterPhoto
    /\ Keeps /\ UNCHANGED <<list, shown, fast, RELOAD, FIRST_DONE, BG,
                            SD_LOCK, fresh>>

-----------------------------------------------------------------------------
(* load: SD_LOCK is held across its awaits.                                *)

Name == list[index]
Loaded ==
    /\ BG' = [what |-> Name, layout |-> layout]
    /\ shown' = index /\ failures' = 0
    /\ FIRST_DONE' = TRUE /\ pc' = "fade in"
    /\ UNCHANGED fast
OldShade ==                                                     \* mutant
    /\ BG' = Gradient(BG.layout)
    /\ failures' = failures + 1
    /\ shown' = IF shown = index THEN None ELSE shown
    /\ FIRST_DONE' = TRUE /\ pc' = "fade in"
    /\ UNCHANGED fast
Failed ==
    /\ BG' = Gradient(layout)
    /\ failures' = failures + 1
    /\ shown' = IF shown = index THEN None ELSE shown
    /\ FIRST_DONE' = TRUE /\ pc' = "fade in"
    /\ UNCHANGED fast
StaysFast ==                                                    \* mutant
    IF fast
    THEN pc' = "lock" /\ UNCHANGED <<fast, BG, failures, shown, FIRST_DONE>>
    ELSE Failed
IoError ==
    IF fast
    THEN /\ fast' = FALSE /\ pc' = "lock"
         /\ UNCHANGED <<BG, failures, shown, FIRST_DONE>>
    ELSE Failed

(* The volume and the file are opened, the header is read.  Without an     *)
(* error the rows follow, which overwrite BG from now on.                  *)
OpenPhoto ==
    /\ pc = "lock" /\ CardIsFree
    /\ \/ /\ MayWork /\ card[Name] # "none"
          /\ SD_LOCK' = "show" /\ BG' = Partial /\ pc' = "reading"
          /\ UNCHANGED <<failures, shown, FIRST_DONE, fast>>
       \/ MayWork /\ card[Name] # "ok" /\ Failed /\ UNCHANGED SD_LOCK
       \/ MayErr /\ IoError /\ UNCHANGED SD_LOCK
    /\ Keeps /\ UNCHANGED <<fade_ms, list, index, layout, RELOAD, LEVEL, fresh>>

(* READ_BUDGET is used up: wait for the end of a pause, then for a frame.  *)
ResumesInPause ==                                               \* mutant
    /\ pc = "reading" /\ PAUSE
    /\ pc' = "frame"
    /\ Keeps /\ UNCHANGED <<fade_ms, locals, RELOAD, FIRST_DONE, LEVEL, BG,
                            SD_LOCK, fresh>>
Resumes ==
    /\ pc = "reading" /\ ~PAUSE
    /\ pc' = "frame"
    /\ Keeps /\ UNCHANGED <<fade_ms, locals, RELOAD, FIRST_DONE, LEVEL, BG,
                            SD_LOCK, fresh>>
(* The next blocks; then the rest of the photo waits, or the load ends.    *)
ReadsOn ==
    /\ Goes("frame", "reading") /\ MayWork
    /\ Keeps /\ UNCHANGED <<fade_ms, locals, RELOAD, FIRST_DONE, LEVEL, BG,
                            SD_LOCK, fresh>>
LoadEnds ==
    /\ pc = "frame"
    /\ \/ MayWork /\ card[Name] = "ok" /\ Loaded
       \/ MayWork /\ card[Name] = "bad" /\ Failed
       \/ MayErr /\ IoError
    /\ SD_LOCK' = "free"
    /\ Keeps /\ UNCHANGED <<fade_ms, list, index, layout, RELOAD, LEVEL, fresh>>

-----------------------------------------------------------------------------
(* jobs_task: an update check, or a request of the page, never both.       *)

ShowButFresh == <<pc, fade_ms, locals, FIRST_DONE, LEVEL, BG, sd>>
Show == <<ShowButFresh, fresh>>

CheckBegins ==
    /\ ~PAUSE /\ page = Idle
    /\ PAUSE' = TRUE
    /\ UNCHANGED <<Show, START, RELOAD, SD_LOCK, page_vars>>
CheckEnds ==
    /\ PAUSE
    /\ PAUSE' = FALSE /\ START' = TRUE
    /\ UNCHANGED <<Show, RELOAD, SD_LOCK, page_vars>>

(* What a request can ask for.                                             *)
Requests ==
    {[do |-> "read"]} \cup [do: {"delete"}, photo: Changing]
      \cup [do: {"upload"}, photo: {p \in Changing : card[p] = "none"}]
      \cup [do: {"save"}, live: Settings, reload: {FALSE}]

(* lock_sd: the show is to begin no new photo while the page waits.        *)
AsksFor(job) == page' = [at |-> "waiting", job |-> job]
Without(images, p) ==
    LET kept[n \in 0 .. Len(images)] ==
            IF n = 0 THEN <<>>
            ELSE IF images[n] = p THEN kept[n - 1]
                                  ELSE Append(kept[n - 1], images[n])
    IN kept[Len(images)]
PageAsks ==
    /\ page = Idle /\ START /\ ~PAUSE
    /\ AsksFor(AnyJob)
    /\ hold' = TRUE
    /\ UNCHANGED <<Show, START, PAUSE, RELOAD, SD_LOCK, card, LIVE>>
PageGetsCard ==
    /\ page # Idle /\ page.at = "waiting" /\ CardIsFree
    /\ page' \in [at: {"using"}, job: IF page.job = AnyJob THEN Requests ELSE {page.job}]
    /\ SD_LOCK' = "page"
    /\ UNCHANGED <<Show, START, PAUSE, RELOAD, card, LIVE, hold>>
(* SD_LOCK_TIMEOUT: 503.                                                   *)
PageRefused ==
    /\ page # Idle /\ page.at = "waiting" /\ ~CardIsFree
    /\ page' = Idle
    /\ UNCHANGED <<Show, START, PAUSE, RELOAD, SD_LOCK, card, LIVE, hold>>

Using(what) == page # Idle /\ page.at = "using" /\ page.job.do = what
HoldsOn == hold' \in {hold, TRUE} /\ SD_LOCK' = "free"

PageRead ==
    /\ Using("read") /\ HoldsOn
    /\ page' = Idle
    /\ UNCHANGED <<Show, START, PAUSE, RELOAD, card, LIVE>>

(* The card has changed.  When ticker.txt has to name other photos now, it *)
(* is saved first.                                                         *)
NowShow(images, saves) ==
    IF saves
    THEN /\ AsksFor([do |-> "save", live |-> [LIVE EXCEPT !.images = images],
                     reload |-> TRUE])
         /\ hold' = TRUE /\ UNCHANGED RELOAD
    ELSE page' = Idle /\ hold' = TRUE /\ RELOAD' = TRUE

PageDeleted ==
    /\ Using("delete")
    /\ LET p == page.job.photo
       IN IF card[p] = "none"                                   \* 404
          THEN page' = Idle /\ hold' = TRUE /\ UNCHANGED <<RELOAD, card>>
          ELSE /\ card' = [card EXCEPT ![p] = "none"]
               /\ NowShow(Without(LIVE.images, p), LIVE.images # <<>>)
    /\ SD_LOCK' = "free"
    /\ UNCHANGED <<Show, START, PAUSE, LIVE>>
(* Names of an added photo are new; a full list stays as it is.            *)
PageUploaded ==
    /\ Using("upload")
    /\ card' = [card EXCEPT ![page.job.photo] = "ok"]
    /\ NowShow(Append(LIVE.images, page.job.photo),
               LIVE.images # <<>> /\ Len(LIVE.images) < MAX_IMAGES)
    /\ SD_LOCK' = "free"
    /\ UNCHANGED <<Show, START, PAUSE, LIVE>>
NeedsReload(new) == LIVE.images # new.images \/ LIVE.layout # new.layout
(* save_ticker_txt and App::apply.                                         *)
PageSaved ==
    /\ Using("save")
    /\ LIVE' = page.job.live
    /\ RELOAD' = (RELOAD \/ page.job.reload \/ NeedsReload(page.job.live))
    /\ hold' = TRUE /\ SD_LOCK' = "free"
    /\ page' = Idle
    /\ UNCHANGED <<Show, START, PAUSE, card>>
(* A delete, an upload or a save that fails: no reload.  The part of an    *)
(* upload that was written is deleted, unless that fails as well.          *)
PageFails ==
    /\ page # Idle /\ page.at = "using" /\ page.job.do # "read"
    /\ HoldsOn
    /\ page' = Idle
    /\ \/ UNCHANGED <<card, fresh>>
       \/ /\ sd = "flaky" /\ page.job.do = "upload"
          /\ card' = [card EXCEPT ![page.job.photo] = "bad"]
          /\ fresh' = FALSE
    /\ UNCHANGED <<ShowButFresh, START, PAUSE, RELOAD, LIVE>>

(* Five seconds since the page used the card last.                         *)
HoldEnds ==
    /\ hold
    /\ hold' = FALSE
    /\ UNCHANGED <<Show, START, PAUSE, RELOAD, SD_LOCK, page, card, LIVE>>

-----------------------------------------------------------------------------
Frames == FadeOut \/ FadeIn \/ Resumes \/ ReadsOn \/ LoadEnds
Task ==
    \/ Delayed \/ Starts \/ Relist \/ ListIsSet \/ ListNeedsCard \/ ScanRoot
    \/ Reload \/ Rested \/ Unpaused \/ Quiet \/ OpenPhoto \/ Frames
Page ==
    \/ PageAsks \/ PageGetsCard \/ PageRefused \/ PageRead \/ PageDeleted
    \/ PageUploaded \/ PageSaved \/ PageFails
Next == Task \/ Page \/ CheckBegins \/ CheckEnds \/ HoldEnds

Spec == Init /\ [][Next]_vars

(* Frames and timers come, a photo has an end, and whatever jobs_task does *)
(* has a timeout (WF, SF LoadEnds).  The task is awake at some time that   *)
(* no check runs, that the page has left the card alone for five seconds   *)
(* and that nobody else has SD_LOCK, if such times come again and again    *)
(* (SF of the steps that wait for one).                                    *)
Waits ==
    \/ Unpaused \/ Quiet \/ ListIsSet \/ ListNeedsCard \/ ScanRoot
    \/ OpenPhoto \/ Resumes
Fairness ==
    /\ WF_vars(Task) /\ SF_vars(LoadEnds) /\ SF_vars(Waits)
    /\ WF_vars(HoldEnds) /\ WF_vars(CheckEnds) /\ WF_vars(Page /\ page # Idle)
FairSpec == Spec /\ Fairness

-----------------------------------------------------------------------------
TypeOK ==
    /\ pc \in Places /\ fade_ms \in 0 .. FADE_IN_MS
    /\ list \in Lists /\ index \in 1 .. MAX_IMAGES
    /\ shown \in 0 .. MAX_IMAGES /\ failures \in 0 .. MAX_IMAGES
    /\ fast \in BOOLEAN /\ layout \in Layout \cup {NoLayout}
    /\ START \in BOOLEAN /\ PAUSE \in BOOLEAN /\ RELOAD \in BOOLEAN
    /\ FIRST_DONE \in BOOLEAN /\ hold \in BOOLEAN /\ fresh \in BOOLEAN
    /\ LEVEL \in LOADING_LEVEL .. 32 /\ LIVE \in Lives
    /\ BG \in [what: Photo \cup {GRADIENT, PARTIAL}, layout: Layout]
    /\ SD_LOCK \in {"free", "show", "page"}
    /\ card \in [Photo -> {"ok", "bad", "none"}]
    /\ sd \in {"good", "slow", "flaky"}
    /\ page \in Pages

(* A background that is overwritten row by row, or was left so by a load   *)
(* that broke off, is on the screen only at the level of loading: it is    *)
(* replaced before the light comes back.                                   *)
HalfIsDim == BG.what = PARTIAL => LEVEL = LOADING_LEVEL

(* The volume is open once: while the photo task reads, across its awaits, *)
(* the page neither reads nor changes the card, and the other way round.   *)
OneOpensTheCard ==
    /\ pc \in {"reading", "frame"} => SD_LOCK = "show"
    /\ (page # Idle /\ page.at = "using") => SD_LOCK = "page"

(* When no reload is due, the show runs on the list that LIVE and the card *)
(* ask for now, whatever the page did to them meanwhile (a request that    *)
(* failed halfway, or a scan that failed, excepted).                       *)
ListIsCurrent ==
    (~RELOAD /\ pc \in Listed /\ fresh /\ page = Idle)
        => IF LIVE.images # <<>> THEN list = LIVE.images ELSE list \in RootBmps

(* When no reload is due, a background that is fully lit has the shading   *)
(* of the present layout burnt in, not that of the layout before a change. *)
LayoutIsCurrent ==
    (~RELOAD /\ LEVEL = 32 /\ pc \in Listed \ {"unpaused", "quiet", "fade out"})
        => BG.layout = LIVE.layout

(* A fade goes one way, and a level is left only by a fade.                *)
FadesOneWay ==
    [][/\ LEVEL' < LEVEL => pc = "fade out"
       /\ LEVEL' > LEVEL => pc = "fade in"
       /\ pc = "fade out" /\ pc' # pc => LEVEL' \in {LOADING_LEVEL, LEVEL}]_vars

(* A version on trial cannot buy itself before the first photo was tried:  *)
(* that comes, whatever the card and the checks do, once people leave the  *)
(* page alone.                                                             *)
PageRests == <>[](page = Idle)
FirstPhotoIsTried == PageRests => <>FIRST_DONE

(* A reload that was asked for is taken up.                                *)
ReloadIsTaken == RELOAD ~> ~RELOAD

(* The photo task gives the card back, though it holds it over pauses.     *)
CardComesBack == SD_LOCK = "show" ~> SD_LOCK # "show"

(* A photo of the list that can be read is on the screen again and again,  *)
(* though the others be broken and the card slow, and whatever the page    *)
(* did to the card and the list before; slide= must not have been 0.       *)
Readable(p) ==
    /\ p \in {list[i] : i \in DOMAIN list}
    /\ card[p] = "ok"
    /\ sd = "good" \/ (sd = "slow" /\ LIVE.images # <<>>)
Settles(p) == <>[](page = Idle /\ (pc \in Listed => Readable(p)))
OnScreen(p) == BG.what = p /\ LEVEL = 32
KeepsShowing ==
    \A p \in Photo : [](LIVE.interval > 0) /\ Settles(p) => []<>OnScreen(p)

(* Whatever the page and the card do to a photo that is being shown: one   *)
(* task has the card, half a photo stays dim, and list and shading are     *)
(* those of the present settings.                                          *)
ShowIsSound == TypeOK /\ HalfIsDim /\ OneOpensTheCard /\ ListIsCurrent /\ LayoutIsCurrent

(* The photo task never waits for good: it tries a first photo, takes up   *)
(* a reload and gives the card back, and its fades end at a level of rest. *)
KeepsGoing == FirstPhotoIsTried /\ ReloadIsTaken /\ CardComesBack /\ FadesOneWay
=============================================================================
