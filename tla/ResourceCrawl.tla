--------------------------- MODULE ResourceCrawl ---------------------------
(***************************************************************************)
(* list_resources and explore_resource: the breadth-first crawl that lists *)
(* the files reachable from a URL.  One action per request.  A response is *)
(* abstracted to what the code asks of it, a body to the links in it.      *)
(***************************************************************************)
EXTENDS Integers, Sequences, FiniteSets, Functions

CONSTANTS
    Urls,      \* the URLs there are
    Root,      \* the one the crawl is asked for
    Sites,     \* what the server has at each of them
    Depths,    \* the values of level
    Patterns   \* what the pattern finds: the URLs and the file names it matches

Verbs == {"GET", "PROPFIND"}

\* A response: a body the extractors read, one that speaks of WebDAV, status
\* 207, status 405 or 501, a download (an attachment, or a type no extractor is
\* for), or none; and whether its content type is a page's, another or missing.
Reply == [form : {"links", "webdav", "multistatus", "refused", "file", "fails"},
          type : {"page", "other", "none"}]

\* What is at a URL: what OPTIONS says of it (a DAV header, PROPFIND allowed,
\* neither, or no answer) and under which type, how it answers GET and PROPFIND,
\* what its extension tells, whether WebDAV lists it as a collection, and the
\* links in it, each once, some of which are in HTML only as a quoted text.
Page == [options    : {"dav", "allow", "none", "fails"},
         type       : {"page", "other", "none"},
         reply      : [Verbs -> Reply],
         ext        : {"navigable", "other", "none"},
         collection : BOOLEAN,
         body       : {"html", "json"},
         children   : {s \in Seq(Urls) : IsInjective(s)},
         quoted     : SUBSET Urls]

ASSUME CrawlAssumption ==
    /\ Root \in Urls
    /\ \A s \in Sites : DOMAIN s = Urls /\ \A u \in Urls : s[u] \in Page
    /\ Depths \subseteq Nat \ {0}
    /\ Patterns \subseteq [url : SUBSET Urls, name : SUBSET Urls]

VARIABLES
    site, depth, pattern,  \* the server, level and regex of this crawl
    queue,    \* the DiscoveryTasks that wait
    seen,     \* seen_urls
    task,     \* the task that is explored
    step,     \* idle, probing, asking or done
    method,   \* the HTTP method of the next request
    retry,    \* is_retry
    only,     \* process_only_files
    yielded,  \* the URLs handed to the caller
    taken,    \* the URLs that were explored, in order
    opened    \* the tasks whose links were read

inputs == <<site, depth, pattern>>
vars == <<inputs, queue, seen, task, step, method, retry, only, yielded, taken, opened>>

Link == [url : Urls, dir : {"yes", "no", "unknown"}, hint : {"GET", "PROPFIND", "UNKNOWN"}]
Task == [url : Urls, level : Nat, hint : {"GET", "PROPFIND", "UNKNOWN"}, only : BOOLEAN]

\* is_navigable of an extension alone.
ByExtension == [navigable |-> "yes", other |-> "no", none |-> "unknown"]

\* The links the three extractors make of a child c of u; all but those of a
\* JSON body and of a quoted URL say how to ask for it.
HtmlLink(u, c) ==
    LET dir == ByExtension[site[c].ext]
    IN  [url |-> c, dir |-> dir,
         hint |-> IF c \in site[u].quoted /\ dir # "no" THEN "UNKNOWN" ELSE "GET"]
\* A slip: a hint no request is made with.
JsonOther(c) == [url |-> c, dir |-> "unknown", hint |-> "OTHER"]
JsonLink(c) == [url |-> c, dir |-> "unknown", hint |-> "UNKNOWN"]
DavLink(c) == [url |-> c, dir |-> IF site[c].collection THEN "yes" ELSE "no",
               hint |-> "PROPFIND"]
LinkTo(u, verb, c) ==
    IF verb = "PROPFIND" THEN DavLink(c)
    ELSE IF site[u].body = "json" THEN JsonLink(c) ELSE HtmlLink(u, c)

\* The extractor for the method finds something in the answer to it.
Shows(u, verb) ==
    site[u].reply[verb].form \in IF verb = "GET" THEN {"links"} ELSE {"webdav", "multistatus"}

\* The answer makes the client ask again by the other method.
Elsewhere(u, verb) ==
    site[u].reply[verb].form \in IF verb = "GET" THEN {"webdav", "multistatus"} ELSE {"refused"}

\* The answer is taken for a file, whatever links there are in it.
IsFile(u, verb) ==
    LET answer == site[u].reply[verb]
    IN  \/ answer.form = "file"
        \/ answer.form \in {"links", "webdav", "refused"} /\ answer.type # "page"

\* A loop that skips all but what is in chosen, in the order of s.  A recursive
\* function, since the provers cannot look into SelectSeq.
Only(s, chosen) ==
    LET kept[n \in 0..Len(s)] ==
            IF n = 0 THEN <<>>
            ELSE IF s[n] \in chosen THEN Append(kept[n - 1], s[n]) ELSE kept[n - 1]
    IN  kept[Len(s)]

\* What the extractor for the method finds; a WebDAV listing names itself too.
Extract(u, verb) ==
    LET found == IF verb = "PROPFIND" THEN Only(site[u].children, Urls \ {u}) ELSE site[u].children
    IN  IF Shows(u, verb) THEN [i \in 1..Len(found) |-> LinkTo(u, verb, found[i])] ELSE <<>>

OfKind(links, dir) == Only(links, {l \in Range(links) : l.dir = dir})
Unseen(links, dir) == Only(links, {l \in Range(links) : l.dir = dir /\ l.url \notin seen})
\* Links that may be files after all.
Matching(links) ==
    Only(links, {l \in Range(links) : l.dir = "unknown" /\ l.url \notin seen /\ l.url \in pattern.url})

\* A slip: a URL that was met before is queued again.
FollowAll(links) ==
    IF task.level < depth THEN OfKind(links, "yes") \o OfKind(links, "unknown")
    ELSE IF task.level = depth
    THEN Matching(links)
    ELSE <<>>
\* A slip: the last level is not one of those that are explored.
FollowShallow(links) ==
    IF task.level + 1 < depth THEN Unseen(links, "yes") \o Unseen(links, "unknown")
    ELSE IF task.level = depth
    THEN Matching(links)
    ELSE <<>>
\* The links that become tasks: below the last level all that may lead on, at
\* the last level those that may be files after all.
Follow(links) ==
    IF task.level < depth THEN Unseen(links, "yes") \o Unseen(links, "unknown")
    ELSE IF task.level = depth
    THEN Matching(links)
    ELSE <<>>

UrlsOf(links) == [i \in 1..Len(links) |-> links[i].url]

\* list_resources goes on with what explore_resource returned.
Digest(files, links) ==
    LET next == Follow(links)
    IN  /\ yielded' = yielded \o Only(files \o UrlsOf(OfKind(links, "no")), pattern.name)
        /\ seen' = seen \union Range(UrlsOf(next))
        /\ queue' = queue \o [i \in 1..Len(next) |->
                [url |-> next[i].url, level |-> task.level + 1, hint |-> next[i].hint,
                 only |-> task.level = depth]]
        /\ step' = "idle"
        /\ UNCHANGED <<inputs, task, method, retry, only, taken>>

\* A slip: the second request does not know that it is one.
AskAgain(verb, again, filesOnly) ==
    /\ step' = "asking" /\ method' = verb /\ retry' = FALSE /\ only' = filesOnly
    /\ UNCHANGED <<inputs, queue, seen, task, yielded, taken, opened>>
AskWith(verb, again, filesOnly) ==
    /\ step' = "asking" /\ method' = verb /\ retry' = again /\ only' = filesOnly
    /\ UNCHANGED <<inputs, queue, seen, task, yielded, taken, opened>>

\* The next task; without a method hint it is probed first.
TakeTask ==
    /\ step = "idle" /\ queue # <<>>
    /\ task' = Head(queue)
    /\ queue' = Tail(queue)
    /\ taken' = Append(taken, task'.url)
    /\ step' = IF task'.hint = "UNKNOWN" THEN "probing" ELSE "asking"
    /\ method' = task'.hint
    /\ retry' = FALSE
    /\ only' = task'.only
    /\ UNCHANGED <<inputs, seen, yielded, opened>>

EndCrawl ==
    /\ step = "idle" /\ queue = <<>>
    /\ step' = "done"
    /\ UNCHANGED <<inputs, queue, seen, task, method, retry, only, yielded, taken, opened>>

Probed == site[task.url].options

\* A slip: the parentheses the other way make a probe for files list folders.
SpeaksDavAtAll == Probed \in {"dav", "allow"}
\* OPTIONS speaks of WebDAV.  "A or B and not C" of the code is A or (B and not
\* C): a DAV header is followed up even when only files are asked for.
SpeaksDav == Probed = "dav" \/ (Probed = "allow" /\ ~only)

ProbeDav == step = "probing" /\ SpeaksDav /\ AskWith("PROPFIND", FALSE, FALSE)

\* The content type OPTIONS names is no page's, or it names none: is_navigable
\* answers None then, which counts as a file too.
TypedAsFile == Probed # "fails" /\ site[task.url].type # "page"

\* A file without another request.
ProbeFile ==
    /\ step = "probing" /\ ~SpeaksDav
    /\ TypedAsFile
    /\ Digest(<<task.url>>, <<>>)
    /\ UNCHANGED opened

ProbeNothing ==
    /\ step = "probing" /\ ~SpeaksDav
    /\ ~TypedAsFile
    /\ IF only THEN Digest(<<>>, <<>>) /\ UNCHANGED opened
       ELSE AskWith("GET", FALSE, FALSE)

Answer == site[task.url].reply[method]

\* _classify_process_only_files_response: neither the extension nor the content
\* type is a page's, and one of them is there.
LooksLikeFile ==
    /\ Answer.form # "fails"
    /\ site[task.url].ext # "navigable" /\ Answer.type # "page"
    /\ site[task.url].ext = "none" => Answer.type # "none"
AskForFile ==
    /\ step = "asking" /\ only
    /\ Digest(IF LooksLikeFile THEN <<task.url>> ELSE <<>>, <<>>)
    /\ UNCHANGED opened

\* The answer to GET is WebDAV: ask again with PROPFIND.
Upgrade ==
    step = "asking" /\ ~only /\ ~retry /\ method = "GET" /\ Elsewhere(task.url, "GET")
    /\ AskWith("PROPFIND", TRUE, FALSE)

\* PROPFIND is not allowed here: ask again with GET.
FallBack ==
    step = "asking" /\ ~only /\ ~retry /\ method = "PROPFIND" /\ Elsewhere(task.url, "PROPFIND")
    /\ AskWith("GET", TRUE, FALSE)

\* _classify_and_extract; a request that fails yields nothing.
Classify ==
    /\ step = "asking" /\ ~only
    /\ retry \/ ~Elsewhere(task.url, method)
    /\ Digest(IF IsFile(task.url, method) THEN <<task.url>> ELSE <<>>, Extract(task.url, method))
    /\ opened' = IF Shows(task.url, method) THEN opened \union {task} ELSE opened

Init ==
    /\ site \in Sites /\ depth \in Depths /\ pattern \in Patterns
    /\ task = [url |-> Root, level |-> 1, hint |-> "UNKNOWN", only |-> FALSE]
    /\ queue = <<task>>
    /\ seen = {Root}
    /\ step = "idle" /\ method = "UNKNOWN" /\ retry = FALSE /\ only = FALSE
    /\ yielded = <<>> /\ taken = <<>> /\ opened = {}

Next == TakeTask \/ ProbeDav \/ ProbeFile \/ ProbeNothing
        \/ AskForFile \/ Upgrade \/ FallBack \/ Classify \/ EndCrawl

Spec == Init /\ [][Next]_vars
FairSpec == Spec /\ WF_vars(Next)

-----------------------------------------------------------------------------
CrawlTypeOK ==
    /\ queue \in Seq(Task) /\ task \in Task
    /\ seen \subseteq Urls
    /\ step \in {"idle", "probing", "asking", "done"}
    /\ method \in {"GET", "PROPFIND", "UNKNOWN"}
    /\ retry \in BOOLEAN /\ only \in BOOLEAN
    /\ yielded \in Seq(Urls) /\ taken \in Seq(Urls)
    /\ opened \subseteq Task

\* No URL is explored twice, however many pages link to it or to each other.
ExploredOnce == IsInjective(taken)

\* The links of a page beyond the last level are never read, unless the server
\* says by a DAV header that it is a folder.
DepthKept == \A t \in opened : t.level <= depth \/ site[t.url].options = "dav"

\* The requests that may be the first for u: PROPFIND if OPTIONS speaks of it or
\* a listing calls u a collection, GET if OPTIONS does not or an HTML page links
\* to u by an attribute.
AskedFirst(u, verb) ==
    LET dav == site[u].options \in {"dav", "allow"}
    IN  IF verb = "PROPFIND" THEN dav \/ site[u].collection
        ELSE ~dav \/ \E v \in Urls : /\ site[v].body = "html"
                                     /\ u \in Range(site[v].children) \ site[v].quoted

Other(verb) == IF verb = "GET" THEN "PROPFIND" ELSE "GET"

\* The server shows what is in u to whoever asks: OPTIONS does not make a file of
\* it, and each request that may be the first for it is answered with the links
\* or sends the client to the other one, which is.
Readable(u) ==
    /\ site[u].options = "none" => site[u].type = "page"
    /\ \A verb \in Verbs : AskedFirst(u, verb) =>
            Shows(u, verb) \/ (Elsewhere(u, verb) /\ Shows(u, Other(verb)))

\* Where it leads on to, by whichever answer it is read.
LeadsTo(u) ==
    IF Readable(u)
    THEN {c \in Range(site[u].children) \ {u} :
             \A verb \in Verbs : Shows(u, verb) => LinkTo(u, verb, c).dir # "no"}
    ELSE {}

\* What is at most depth - 1 links away from the root.
Near ==
    LET near[k \in 1..depth] ==
            IF k = 1 THEN {Root} ELSE near[k - 1] \union UNION {LeadsTo(u) : u \in near[k - 1]}
    IN  near[depth]

\* The server tells whoever asks that f is a file: no extension, type or listing
\* says otherwise, and where OPTIONS speaks of WebDAV, PROPFIND does not answer
\* with a listing of the file.
Recognisable(f) ==
    /\ site[f].ext # "navigable" /\ ~site[f].collection
    /\ site[f].options # "fails" /\ site[f].type # "page"
    /\ site[f].reply["GET"] = [form |-> "file", type |-> "other"]
    /\ site[f].options \in {"dav", "allow"} =>
            LET answer == site[f].reply["PROPFIND"]
            IN  answer.form \in {"refused", "file"} \/ (answer.form = "links" /\ answer.type # "page")

\* The crawl misses nothing the server shows: it lists every file that some page
\* or folder within the depth links to, whichever page met it first, by
\* whatever kind of link and in whichever way it was asked for, whatever else is
\* on the server, if the pattern finds in a URL what it finds in a name.
ListsEverything ==
    step = "done" /\ pattern.name \subseteq pattern.url =>
        \A u \in {v \in Near : Readable(v)} :
            \A f \in Range(site[u].children) :
                Recognisable(f) /\ f \in pattern.name => f \in Range(yielded)

\* How many steps a crawl has before it at most: five for each URL that was not
\* taken yet, and those of the task it is at.
StepsLeft ==
    5 * Cardinality(Urls \ Range(taken))
        + (CASE step = "probing" -> 4
             [] step = "asking" /\ ~retry -> 3
             [] step = "asking" /\ retry -> 2
             [] step = "idle" -> 1
             [] step = "done" -> 0)

\* No request is for nothing: each step takes the crawl nearer to its end,
\* whatever the pages link to and however the server answers.
CrawlAdvances == [][StepsLeft' \in 0..(StepsLeft - 1)]_vars

\* Every crawl ends: pages that link to each other are not explored for ever,
\* and a server that answers GET with WebDAV and refuses PROPFIND is not asked
\* again and again.
CrawlEnds == <>(step = "done")
=============================================================================
