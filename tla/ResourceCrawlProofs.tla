------------------------ MODULE ResourceCrawlProofs ------------------------
(***************************************************************************)
(* The crawl explores no URL twice, keeps to its depth and lists every     *)
(* file within it, and comes nearer to its end with each step: for every   *)
(* site, depth and pattern.                                                *)
(***************************************************************************)
EXTENDS ResourceCrawl, TLAPS, WellFoundedInduction, FiniteSetTheorems

LEMMA LeastElement ==
    ASSUME NEW T, T \subseteq Nat, T # {}
    PROVE  \E x \in T : \A y \in T : x <= y
<1> DEFINE R == {ss \in Nat \X Nat : ss[1] < ss[2]}
<1>1. IsWellFoundedOn(R, Nat)
  BY NatLessThanWellFounded DEF OpToRel
<1>2. PICK x \in T : \A y \in T : ~ (<<y, x>> \in R)
  <2> HIDE DEF R
  <2> QED
    BY <1>1, WFMin
<1>3. \A y \in T : y < x => <<y, x>> \in R
  OBVIOUS
<1>4. \A y \in T : ~ (y < x)
  <2> HIDE DEF R
  <2> QED
    BY <1>2, <1>3, Zenon
<1> HIDE DEF R
<1> QED
  BY <1>4

-----------------------------------------------------------------------------
(* What Only keeps.                                                        *)

\* The turns of Only, up to turn m of them.
Kept(s, chosen, m, kept) ==
    kept = [n \in 0..m |->
              IF n = 0 THEN <<>>
              ELSE IF s[n] \in chosen THEN Append(kept[n - 1], s[n]) ELSE kept[n - 1]]

LEMMA KeptExists ==
    ASSUME NEW s, NEW chosen, NEW m \in Nat
    PROVE  \E kept : Kept(s, chosen, m, kept)
<1> DEFINE Missing == {n \in Nat : ~\E kept : Kept(s, chosen, n, kept)}
<1>1. SUFFICES ASSUME Missing # {}
               PROVE  FALSE
  OBVIOUS
<1>2. PICK n \in Missing : \A k \in Missing : n <= k
  <2>1. Missing \subseteq Nat
    OBVIOUS
  <2> HIDE DEF Missing
  <2> QED
    BY <1>1, <2>1, LeastElement
<1>3. n \in Nat /\ ~\E kept : Kept(s, chosen, n, kept)
  OBVIOUS
<1>4. CASE n = 0
  <2> DEFINE g == [k \in 0..0 |-> <<>>]
  <2>1. g = [k \in 0..0 |->
              IF k = 0 THEN <<>>
              ELSE IF s[k] \in chosen THEN Append(g[k - 1], s[k]) ELSE g[k - 1]]
    OBVIOUS
  <2>2. Kept(s, chosen, 0, g)
    BY <2>1 DEF Kept
  <2> QED
    BY <1>3, <1>4, <2>2
<1>5. CASE n # 0
  <2>1. n - 1 \in Nat /\ ~(n <= n - 1)
    BY <1>3, <1>5
  <2>2. n - 1 \notin Missing
    <3> HIDE DEF Missing
    <3> QED
      BY <1>2, <2>1
  <2>3. PICK f : Kept(s, chosen, n - 1, f)
    BY <2>1, <2>2
  <2> DEFINE g == [k \in 0..n |->
              IF k = n THEN (IF s[n] \in chosen THEN Append(f[n - 1], s[n]) ELSE f[n - 1]) ELSE f[k]]
             h == [k \in 0..n |->
              IF k = 0 THEN <<>>
              ELSE IF s[k] \in chosen THEN Append(g[k - 1], s[k]) ELSE g[k - 1]]
  <2>4. ASSUME NEW k \in 0..n
        PROVE  g[k] = h[k]
    <3>1. CASE k = n
      <4>1. n - 1 \in 0..n /\ n - 1 # n /\ n \in 0..n
        BY <1>3, <1>5
      <4>2. g[n - 1] = f[n - 1]
        BY <4>1
      <4> QED
        BY <1>5, <3>1, <4>1, <4>2
    <3>2. CASE k # n
      <4>1. k \in 0..n - 1 /\ k <= n - 1
        BY <1>3, <3>2
      <4>2. f[k] = IF k = 0 THEN <<>>
                   ELSE IF s[k] \in chosen THEN Append(f[k - 1], s[k]) ELSE f[k - 1]
        BY <2>3, <4>1 DEF Kept
      <4>3. k # 0 => k - 1 \in 0..n /\ k - 1 # n
        BY <1>3, <4>1
      <4>4. g[k] = f[k] /\ (k # 0 => g[k - 1] = f[k - 1])
        BY <3>2, <4>3
      <4> QED
        BY <4>2, <4>4
    <3> QED
      BY <3>1, <3>2
  <2>5. g = h
    <3>1. DOMAIN g = 0..n /\ DOMAIN h = 0..n /\ g = [k \in 0..n |-> g[k]] /\ h = [k \in 0..n |-> h[k]]
      OBVIOUS
    <3> HIDE DEF g, h
    <3> QED
      BY <2>4, <3>1
  <2>6. Kept(s, chosen, n, g)
    BY <2>5 DEF Kept
  <2> QED
    BY <1>3, <2>6
<1> QED
  BY <1>4, <1>5

LEMMA OnlyIsKept ==
    ASSUME NEW s, Len(s) \in Nat, NEW chosen
    PROVE  \E kept : Kept(s, chosen, Len(s), kept) /\ Only(s, chosen) = kept[Len(s)]
<1> DEFINE k == CHOOSE kept :
              kept = [n \in 0..Len(s) |->
                        IF n = 0 THEN <<>>
                        ELSE IF s[n] \in chosen THEN Append(kept[n - 1], s[n]) ELSE kept[n - 1]]
<1>1. Kept(s, chosen, Len(s), k)
  <2>1. \E kept : Kept(s, chosen, Len(s), kept)
    BY KeptExists
  <2> QED
    BY <2>1, Zenon DEF Kept
<1>2. Only(s, chosen) = k[Len(s)]
  BY Zenon DEF Only
<1> HIDE DEF k
<1> QED
  BY <1>1, <1>2, Zenon

\* A property of the parts of s that stays when one more element is looked at.
LEMMA KeptParts ==
    ASSUME NEW S, NEW s \in Seq(S), NEW chosen, NEW kept, Kept(s, chosen, Len(s), kept),
           NEW n \in 0..Len(s)
    PROVE  /\ n = 0 => kept[n] = <<>>
           /\ n # 0 /\ s[n] \in chosen => kept[n] = Append(kept[n - 1], s[n])
           /\ n # 0 /\ s[n] \notin chosen => kept[n] = kept[n - 1]
BY DEF Kept

\* What was kept after n turns: a sequence, the chosen elements among the first
\* n, each as often as it is among them.
Distinct(s) == \A i, j \in 1..Len(s) : s[i] = s[j] => i = j
KeptWell(S, s, chosen, k, n) ==
    /\ k \in Seq(S)
    /\ Distinct(s) => Distinct(k)
    /\ \A i \in 1..Len(k) : k[i] \in chosen /\ \E j \in 1..n : k[i] = s[j]
    /\ \A j \in 1..n : s[j] \in chosen => \E i \in 1..Len(k) : k[i] = s[j]

LEMMA KeptOneMore ==
    ASSUME NEW S, NEW s \in Seq(S), NEW chosen, NEW n \in 1..Len(s),
           NEW before, KeptWell(S, s, chosen, before, n - 1)
    PROVE  KeptWell(S, s, chosen, IF s[n] \in chosen THEN Append(before, s[n]) ELSE before, n)
<1>1. s[n] \in S /\ n - 1 \in Nat /\ n \in Nat
  OBVIOUS
<1>2. \A j \in 1..n : j = n \/ j \in 1..n - 1
  BY <1>1
<1>3. \A j \in 1..n - 1 : j \in 1..n
  BY <1>1
<1>4. n \in 1..n
  BY <1>1
<1>5. CASE s[n] \notin chosen
  BY <1>2, <1>3, <1>5 DEF KeptWell
<1>6. CASE s[n] \in chosen
  <2> DEFINE after == Append(before, s[n])
  <2>1. before \in Seq(S)
    BY DEF KeptWell
  <2>2. /\ after \in Seq(S) /\ Len(after) = Len(before) + 1 /\ Len(before) \in Nat
        /\ \A i \in 1..Len(before) : after[i] = before[i]
        /\ after[Len(before) + 1] = s[n]
    BY <1>1, <2>1
  <2> HIDE DEF after
  <2>3. ASSUME NEW i \in 1..Len(after)
        PROVE  after[i] \in chosen /\ \E j \in 1..n : after[i] = s[j]
    <3>1. CASE i = Len(before) + 1
      BY <1>4, <1>6, <2>2, <3>1
    <3>2. CASE i # Len(before) + 1
      <4>1. i \in 1..Len(before)
        BY <2>2, <3>2
      <4>2. before[i] \in chosen /\ \E j \in 1..n - 1 : before[i] = s[j]
        BY <4>1 DEF KeptWell
      <4>3. after[i] = before[i]
        BY <2>2, <4>1
      <4> QED
        BY <1>3, <4>2, <4>3
    <3> QED
      BY <3>1, <3>2
  <2>4. ASSUME NEW j \in 1..n, s[j] \in chosen
        PROVE  \E i \in 1..Len(after) : after[i] = s[j]
    <3>1. CASE j = n
      <4>1. Len(before) + 1 \in 1..Len(after)
        BY <2>2
      <4> QED
        BY <2>2, <3>1, <4>1
    <3>2. CASE j # n
      <4>1. PICK i \in 1..Len(before) : before[i] = s[j]
        BY <1>2, <2>4, <3>2 DEF KeptWell
      <4>2. i \in 1..Len(after)
        BY <2>2
      <4> QED
        BY <2>2, <4>1, <4>2
    <3> QED
      BY <3>1, <3>2
  <2>5. ASSUME Distinct(s)
        PROVE  Distinct(after)
    <3>1. ASSUME NEW i \in 1..Len(before)
          PROVE  before[i] # s[n]
      <4>1. PICK j \in 1..n - 1 : before[i] = s[j]
        BY DEF KeptWell
      <4>2. j \in 1..Len(s) /\ j # n /\ n \in 1..Len(s)
        BY <1>1
      <4> QED
        BY <2>5, <4>1, <4>2 DEF Distinct
    <3>2. SUFFICES ASSUME NEW i \in 1..Len(after), NEW j \in 1..Len(after), after[i] = after[j]
                   PROVE  i = j
      BY DEF Distinct
    <3>3. \A k \in 1..Len(after) : k = Len(before) + 1 \/ k \in 1..Len(before)
      BY <2>2
    <3>4. \A k \in 1..Len(before) : \A l \in 1..Len(before) : before[k] = before[l] => k = l
      BY <2>5 DEF KeptWell, Distinct
    <3> QED
      BY <2>2, <3>1, <3>2, <3>3, <3>4
  <2>6. KeptWell(S, s, chosen, after, n)
    BY <2>2, <2>3, <2>4, <2>5 DEF KeptWell
  <2> QED
    BY <1>6, <2>6 DEF after
<1> QED
  BY <1>5, <1>6

\* Only keeps exactly the chosen elements.
LEMMA OnlyKeeps ==
    ASSUME NEW S, NEW s \in Seq(S), NEW chosen
    PROVE  /\ Only(s, chosen) \in Seq(S)
           /\ Distinct(s) => Distinct(Only(s, chosen))
           /\ \A i \in 1..Len(Only(s, chosen)) :
                 Only(s, chosen)[i] \in chosen /\ \E j \in 1..Len(s) : Only(s, chosen)[i] = s[j]
           /\ \A j \in 1..Len(s) :
                 s[j] \in chosen => \E i \in 1..Len(Only(s, chosen)) : Only(s, chosen)[i] = s[j]
<1>1. Len(s) \in Nat
  OBVIOUS
<1>2. PICK kept : Kept(s, chosen, Len(s), kept) /\ Only(s, chosen) = kept[Len(s)]
  BY <1>1, OnlyIsKept
<1> DEFINE Bad == {n \in 0..Len(s) : ~KeptWell(S, s, chosen, kept[n], n)}
<1>3. Bad = {}
  <2> SUFFICES ASSUME Bad # {}
               PROVE  FALSE
    OBVIOUS
  <2>1. PICK n \in Bad : \A k \in Bad : n <= k
    <3>1. Bad \subseteq Nat
      BY <1>1
    <3> HIDE DEF Bad
    <3> QED
      BY <3>1, LeastElement
  <2>2. n \in 0..Len(s) /\ ~KeptWell(S, s, chosen, kept[n], n)
    OBVIOUS
  <2>3. CASE n = 0
    <3>1. kept[0] = <<>>
      BY <1>2, <2>2, <2>3, KeptParts
    <3> QED
      BY <2>2, <2>3, <3>1 DEF KeptWell, Distinct
  <2>4. CASE n # 0
    <3>1. n - 1 \in 0..Len(s) /\ n \in 1..Len(s) /\ ~(n <= n - 1)
      BY <1>1, <2>2, <2>4
    <3>2. n - 1 \notin Bad
      <4> HIDE DEF Bad
      <4> QED
        BY <2>1, <3>1
    <3>3. KeptWell(S, s, chosen, kept[n - 1], n - 1)
      BY <3>1, <3>2
    <3> HIDE DEF Bad
    <3>4. kept[n] = IF s[n] \in chosen THEN Append(kept[n - 1], s[n]) ELSE kept[n - 1]
      <4>1. s[n] \in chosen => kept[n] = Append(kept[n - 1], s[n])
        BY <1>2, <2>2, <2>4, KeptParts
      <4>2. s[n] \notin chosen => kept[n] = kept[n - 1]
        BY <1>2, <2>2, <2>4, KeptParts
      <4> QED
        BY <4>1, <4>2, Zenon
    <3> QED
      BY <2>2, <3>1, <3>3, <3>4, KeptOneMore
  <2> QED
    BY <2>3, <2>4
<1>4. KeptWell(S, s, chosen, Only(s, chosen), Len(s))
  <2>1. Len(s) \in 0..Len(s)
    BY <1>1
  <2> QED
    BY <1>2, <1>3, <2>1
<1> QED
  BY <1>4 DEF KeptWell

LEMMA RangeOfOnly ==
    ASSUME NEW S, NEW s \in Seq(S), NEW chosen
    PROVE  Only(s, chosen) \in Seq(S) /\ Range(Only(s, chosen)) = Range(s) \intersect chosen
<1> DEFINE part == Only(s, chosen)
<1>1. /\ part \in Seq(S)
      /\ \A i \in 1..Len(part) : part[i] \in chosen /\ \E j \in 1..Len(s) : part[i] = s[j]
      /\ \A j \in 1..Len(s) : s[j] \in chosen => \E i \in 1..Len(part) : part[i] = s[j]
  BY OnlyKeeps
<1> HIDE DEF part
<1>2. DOMAIN part = 1..Len(part) /\ DOMAIN s = 1..Len(s)
  BY <1>1
<1>3. Range(part) = Range(s) \intersect chosen
  <2>1. ASSUME NEW x \in Range(part)
        PROVE  x \in Range(s) /\ x \in chosen
    <3>1. PICK i \in 1..Len(part) : x = part[i]
      BY <1>2 DEF Range
    <3>2. PICK j \in 1..Len(s) : part[i] = s[j]
      BY <1>1
    <3> QED
      BY <1>1, <1>2, <3>1, <3>2 DEF Range
  <2>2. ASSUME NEW x \in Range(s), x \in chosen
        PROVE  x \in Range(part)
    <3>1. PICK j \in 1..Len(s) : x = s[j]
      BY <1>2 DEF Range
    <3>2. PICK i \in 1..Len(part) : part[i] = s[j]
      BY <1>1, <2>2, <3>1
    <3> QED
      BY <1>2, <3>1, <3>2 DEF Range
  <2> QED
    BY <2>1, <2>2
<1> QED
  BY <1>1, <1>3 DEF part

-----------------------------------------------------------------------------
(* The links of a page and what follows of them.                           *)

DistinctUrls(s) == \A i, j \in 1..Len(s) : s[i].url = s[j].url => i = j

InputsOK == site \in Sites /\ depth \in Depths /\ pattern \in Patterns

LEMMA InputFields ==
    ASSUME InputsOK
    PROVE  /\ depth \in Nat \ {0}
           /\ pattern.url \subseteq Urls /\ pattern.name \subseteq Urls
           /\ \A u \in Urls :
                 /\ site[u].options \in {"dav", "allow", "none", "fails"}
                 /\ site[u].reply \in [Verbs -> Reply]
                 /\ site[u].ext \in {"navigable", "other", "none"}
                 /\ site[u].body \in {"html", "json"}
                 /\ site[u].children \in Seq(Urls) /\ Distinct(site[u].children)
<1>1. depth \in Nat \ {0} /\ pattern \in [url : SUBSET Urls, name : SUBSET Urls]
  BY CrawlAssumption DEF InputsOK
<1>2. ASSUME NEW u \in Urls
      PROVE  /\ site[u].options \in {"dav", "allow", "none", "fails"}
             /\ site[u].reply \in [Verbs -> Reply]
             /\ site[u].ext \in {"navigable", "other", "none"}
             /\ site[u].body \in {"html", "json"}
             /\ site[u].children \in Seq(Urls) /\ Distinct(site[u].children)
  <2>1. site[u] \in Page
    BY CrawlAssumption DEF InputsOK
  <2>2. site[u].children \in Seq(Urls) /\ IsInjective(site[u].children)
    BY <2>1 DEF Page
  <2> QED
    BY <2>1, <2>2 DEF Page, IsInjective, Distinct
<1> QED
  BY <1>1, <1>2

\* How the crawl may ask for it first: by GET if a page links to it that way, by
\* PROPFIND if a listing calls it a collection.
HintOK(x) ==
    /\ x.hint = "GET" => AskedFirst(x.url, "GET")
    /\ x.hint = "PROPFIND" => site[x.url].collection

LEMMA LinkWell ==
    ASSUME InputsOK, NEW u \in Urls, NEW verb \in Verbs, NEW c \in Range(site[u].children)
    PROVE  /\ LinkTo(u, verb, c) \in Link /\ LinkTo(u, verb, c).url = c
           /\ Recognisable(c) => LinkTo(u, verb, c).dir # "yes"
           /\ LinkTo(u, verb, c).dir # "no" => HintOK(LinkTo(u, verb, c))
<1>1. site[u].children \in Seq(Urls) /\ site[u].body \in {"html", "json"}
  BY InputFields
<1>2. c \in Urls
  BY <1>1 DEF Range
<1>3. /\ ByExtension[site[c].ext] \in {"yes", "no", "unknown"}
      /\ site[c].ext # "navigable" => ByExtension[site[c].ext] # "yes"
  <2>1. site[c].ext \in {"navigable", "other", "none"}
    BY <1>2, InputFields
  <2> QED
    BY <2>1 DEF ByExtension
<1>4. CASE verb = "PROPFIND"
  <2>1. LinkTo(u, verb, c) = DavLink(c)
    BY <1>4 DEF LinkTo
  <2>2. /\ DavLink(c) \in Link /\ DavLink(c).url = c /\ DavLink(c).hint = "PROPFIND"
        /\ Recognisable(c) => DavLink(c).dir # "yes"
        /\ DavLink(c).dir # "no" => site[c].collection
    BY <1>2 DEF DavLink, Link, Recognisable
  <2> QED
    BY <2>1, <2>2 DEF HintOK
<1>5. CASE verb # "PROPFIND" /\ site[u].body = "json"
  <2>1. LinkTo(u, verb, c) = JsonLink(c)
    BY <1>5 DEF LinkTo
  <2> QED
    BY <1>2, <2>1 DEF JsonLink, Link, HintOK
<1>6. CASE verb # "PROPFIND" /\ site[u].body = "html"
  <2>1. LinkTo(u, verb, c) = HtmlLink(u, c)
    BY <1>6 DEF LinkTo
  <2>2. /\ HtmlLink(u, c) \in Link /\ HtmlLink(u, c).url = c
        /\ HtmlLink(u, c).dir = ByExtension[site[c].ext]
        /\ HtmlLink(u, c).hint \in {"GET", "UNKNOWN"}
        /\ HtmlLink(u, c).dir # "no" /\ HtmlLink(u, c).hint = "GET" => c \notin site[u].quoted
    BY <1>2, <1>3 DEF HtmlLink, Link
  <2>3. c \notin site[u].quoted => AskedFirst(c, "GET")
    BY <1>6 DEF AskedFirst
  <2>4. Recognisable(c) => HtmlLink(u, c).dir # "yes"
    BY <1>3, <2>2 DEF Recognisable
  <2> QED
    BY <2>1, <2>2, <2>3, <2>4 DEF HintOK
<1> QED
  BY <1>1, <1>4, <1>5, <1>6

\* A page that shows its links shows each of its children once, except that a
\* listing of u leaves u out.
LEMMA ExtractWell ==
    ASSUME InputsOK, NEW u \in Urls, NEW verb \in Verbs
    PROVE  /\ Extract(u, verb) \in Seq(Link)
           /\ DistinctUrls(Extract(u, verb))
           /\ \A i \in 1..Len(Extract(u, verb)) :
                 \E c \in Range(site[u].children) : Extract(u, verb)[i] = LinkTo(u, verb, c)
           /\ Shows(u, verb) => \A c \in Range(site[u].children) \ {u} :
                 \E i \in 1..Len(Extract(u, verb)) : Extract(u, verb)[i] = LinkTo(u, verb, c)
<1> DEFINE cs == site[u].children
           found == IF verb = "PROPFIND" THEN Only(cs, Urls \ {u}) ELSE cs
           link(c) == LinkTo(u, verb, c)
           links == [i \in 1..Len(found) |-> link(found[i])]
<1>1. cs \in Seq(Urls) /\ Distinct(cs)
  BY InputFields
<1>2. /\ found \in Seq(Urls) /\ Distinct(found) /\ Range(found) \subseteq Range(cs)
      /\ Range(cs) \ {u} \subseteq Range(found)
  <2>1. CASE verb = "PROPFIND"
    <3>1. Only(cs, Urls \ {u}) \in Seq(Urls) /\ Distinct(Only(cs, Urls \ {u}))
      BY <1>1, OnlyKeeps
    <3>2. Range(Only(cs, Urls \ {u})) = Range(cs) \intersect (Urls \ {u})
      BY <1>1, RangeOfOnly
    <3>3. Range(cs) \subseteq Urls
      BY <1>1 DEF Range
    <3> HIDE DEF cs
    <3> QED
      BY <2>1, <3>1, <3>2, <3>3
  <2>2. CASE verb # "PROPFIND"
    BY <1>1, <2>2
  <2> QED
    BY <2>1, <2>2
<1>3. \A c \in Range(cs) : link(c) \in Link /\ link(c).url = c
  BY LinkWell
<1> HIDE DEF cs, link, found
<1>4. \A i \in 1..Len(found) : found[i] \in Range(found) /\ found[i] \in Range(cs)
  <2>1. DOMAIN found = 1..Len(found)
    BY <1>2
  <2>2. \A i \in 1..Len(found) : found[i] \in Range(found)
    BY <2>1 DEF Range
  <2> QED
    BY <1>2, <2>2
<1>5. /\ links \in Seq(Link) /\ Len(links) = Len(found)
      /\ \A i \in 1..Len(found) : links[i] = link(found[i]) /\ links[i].url = found[i]
  BY <1>2, <1>3, <1>4
<1>6. \A c \in Range(found) : \E i \in 1..Len(found) : c = found[i]
  BY <1>2 DEF Range
<1> HIDE DEF links
<1>7. DistinctUrls(links)
  BY <1>2, <1>5 DEF DistinctUrls, Distinct
<1>8. CASE Shows(u, verb)
  <2>1. Extract(u, verb) = links
    BY <1>8 DEF Extract, links, found, cs, link
  <2>2. \A i \in 1..Len(links) : \E c \in Range(cs) : links[i] = link(c)
    BY <1>4, <1>5
  <2>3. \A c \in Range(cs) \ {u} : \E i \in 1..Len(links) : links[i] = link(c)
    BY <1>2, <1>5, <1>6
  <2> QED
    BY <1>5, <1>7, <2>1, <2>2, <2>3 DEF cs, link
<1>9. CASE ~Shows(u, verb)
  <2>1. Extract(u, verb) = <<>>
    BY <1>9 DEF Extract
  <2> QED
    BY <1>9, <2>1 DEF DistinctUrls
<1> QED
  BY <1>8, <1>9

\* What is kept of the links of a page.
LEMMA OnlyLinks ==
    ASSUME NEW links \in Seq(Link), DistinctUrls(links), NEW chosen
    PROVE  /\ Only(links, chosen) \in Seq(Link) /\ DistinctUrls(Only(links, chosen))
           /\ \A i \in 1..Len(Only(links, chosen)) :
                 Only(links, chosen)[i] \in chosen
                 /\ \E j \in 1..Len(links) : Only(links, chosen)[i] = links[j]
           /\ \A j \in 1..Len(links) : links[j] \in chosen =>
                 \E i \in 1..Len(Only(links, chosen)) : Only(links, chosen)[i] = links[j]
<1> DEFINE part == Only(links, chosen)
<1>1. Distinct(links)
  BY DEF Distinct, DistinctUrls
<1>2. /\ part \in Seq(Link) /\ Distinct(part)
      /\ \A i \in 1..Len(part) : part[i] \in chosen /\ \E j \in 1..Len(links) : part[i] = links[j]
      /\ \A j \in 1..Len(links) : links[j] \in chosen => \E i \in 1..Len(part) : part[i] = links[j]
  BY <1>1, OnlyKeeps
<1> HIDE DEF part
<1>3. ASSUME NEW i \in 1..Len(part), NEW k \in 1..Len(part), part[i].url = part[k].url
      PROVE  i = k
  <2>1. PICK j \in 1..Len(links) : part[i] = links[j]
    BY <1>2
  <2>2. PICK l \in 1..Len(links) : part[k] = links[l]
    BY <1>2
  <2>3. j = l
    BY <1>3, <2>1, <2>2 DEF DistinctUrls
  <2> QED
    BY <1>2, <2>1, <2>2, <2>3 DEF Distinct
<1> QED
  BY <1>2, <1>3 DEF DistinctUrls, part

\* What becomes a task: links that were not seen, each once, and above the last
\* level all of those that may lead on.
LEMMA FollowWell ==
    ASSUME NEW links \in Seq(Link), DistinctUrls(links), task.level \in Nat, depth \in Nat
    PROVE  /\ Follow(links) \in Seq(Link) /\ DistinctUrls(Follow(links))
           /\ \A i \in 1..Len(Follow(links)) :
                 /\ Follow(links)[i].url \notin seen /\ Follow(links)[i].url \in Urls
                 /\ \E j \in 1..Len(links) : Follow(links)[i] = links[j] /\ links[j].dir # "no"
           /\ task.level > depth => Follow(links) = <<>>
           /\ \A j \in 1..Len(links) :
                 /\ links[j].dir # "no" /\ links[j].url \notin seen
                 /\ \/ task.level < depth
                    \/ task.level = depth /\ links[j].dir = "unknown" /\ links[j].url \in pattern.url
                 => \E i \in 1..Len(Follow(links)) : Follow(links)[i].url = links[j].url
<1>1. \A j \in 1..Len(links) : links[j] \in Link /\ links[j] \in Range(links)
  BY DEF Range
<1>2. \A j \in 1..Len(links) : links[j].url \in Urls /\ links[j].dir \in {"yes", "no", "unknown"}
  BY <1>1 DEF Link
<1>3. CASE task.level < depth
  <2> DEFINE yes == Unseen(links, "yes")
             unknown == Unseen(links, "unknown")
             both == yes \o unknown
  <2>1. /\ yes \in Seq(Link) /\ DistinctUrls(yes)
        /\ \A i \in 1..Len(yes) : yes[i].dir = "yes" /\ yes[i].url \notin seen
                                  /\ \E j \in 1..Len(links) : yes[i] = links[j]
        /\ \A j \in 1..Len(links) : links[j].dir = "yes" /\ links[j].url \notin seen =>
              \E i \in 1..Len(yes) : yes[i] = links[j]
    <3> DEFINE chosen == {l \in Range(links) : l.dir = "yes" /\ l.url \notin seen}
    <3>1. yes = Only(links, chosen)
      BY DEF Unseen
    <3>2. \A j \in 1..Len(links) : links[j] \in chosen <=> links[j].dir = "yes" /\ links[j].url \notin seen
      BY <1>1
    <3>3. \A l \in chosen : l.dir = "yes" /\ l.url \notin seen
      OBVIOUS
    <3> HIDE DEF chosen, yes
    <3> DEFINE part == Only(links, chosen)
    <3>4. /\ part \in Seq(Link) /\ DistinctUrls(part)
          /\ \A i \in 1..Len(part) : part[i] \in chosen /\ \E j \in 1..Len(links) : part[i] = links[j]
          /\ \A j \in 1..Len(links) : links[j] \in chosen => \E i \in 1..Len(part) : part[i] = links[j]
      BY OnlyLinks
    <3>5. yes = part
      BY <3>1
    <3> HIDE DEF part
    <3> QED
      BY <3>2, <3>3, <3>4, <3>5
  <2>2. /\ unknown \in Seq(Link) /\ DistinctUrls(unknown)
        /\ \A i \in 1..Len(unknown) : unknown[i].dir = "unknown" /\ unknown[i].url \notin seen
                                  /\ \E j \in 1..Len(links) : unknown[i] = links[j]
        /\ \A j \in 1..Len(links) : links[j].dir = "unknown" /\ links[j].url \notin seen =>
              \E i \in 1..Len(unknown) : unknown[i] = links[j]
    <3> DEFINE chosen == {l \in Range(links) : l.dir = "unknown" /\ l.url \notin seen}
    <3>1. unknown = Only(links, chosen)
      BY DEF Unseen
    <3>2. \A j \in 1..Len(links) :
             links[j] \in chosen <=> links[j].dir = "unknown" /\ links[j].url \notin seen
      BY <1>1
    <3>3. \A l \in chosen : l.dir = "unknown" /\ l.url \notin seen
      OBVIOUS
    <3> HIDE DEF chosen, unknown
    <3> DEFINE part == Only(links, chosen)
    <3>4. /\ part \in Seq(Link) /\ DistinctUrls(part)
          /\ \A i \in 1..Len(part) : part[i] \in chosen /\ \E j \in 1..Len(links) : part[i] = links[j]
          /\ \A j \in 1..Len(links) : links[j] \in chosen => \E i \in 1..Len(part) : part[i] = links[j]
      BY OnlyLinks
    <3>5. unknown = part
      BY <3>1
    <3> HIDE DEF part
    <3> QED
      BY <3>2, <3>3, <3>4, <3>5
  <2> HIDE DEF yes, unknown
  <2>3. /\ both \in Seq(Link) /\ Len(both) = Len(yes) + Len(unknown)
        /\ Len(yes) \in Nat /\ Len(unknown) \in Nat
        /\ \A i \in 1..Len(yes) : both[i] = yes[i]
        /\ \A i \in 1..Len(unknown) : both[Len(yes) + i] = unknown[i]
        /\ \A i \in 1..Len(both) :
              \/ i \in 1..Len(yes)
              \/ i - Len(yes) \in 1..Len(unknown) /\ both[i] = unknown[i - Len(yes)]
    BY <2>1, <2>2
  <2> HIDE DEF both
  <2>4. ASSUME NEW i \in 1..Len(yes), NEW k \in 1..Len(unknown)
        PROVE  yes[i].url # unknown[k].url
    <3>1. PICK j \in 1..Len(links) : yes[i] = links[j]
      BY <2>1
    <3>2. PICK l \in 1..Len(links) : unknown[k] = links[l]
      BY <2>2
    <3>3. yes[i].dir = "yes" /\ unknown[k].dir = "unknown"
      BY <2>1, <2>2
    <3>4. links[j].url = links[l].url => j = l
      BY DEF DistinctUrls
    <3> QED
      BY <3>1, <3>2, <3>3, <3>4
  <2>5. DistinctUrls(both)
    <3> SUFFICES ASSUME NEW i \in 1..Len(both), NEW k \in 1..Len(both), both[i].url = both[k].url
                 PROVE  i = k
      BY DEF DistinctUrls
    <3>1. CASE i \in 1..Len(yes) /\ k \in 1..Len(yes)
      BY <2>1, <2>3, <3>1 DEF DistinctUrls
    <3>2. CASE i \in 1..Len(yes) /\ k \notin 1..Len(yes)
      BY <2>3, <2>4, <3>2
    <3>3. CASE i \notin 1..Len(yes) /\ k \in 1..Len(yes)
      BY <2>3, <2>4, <3>3
    <3>4. CASE i \notin 1..Len(yes) /\ k \notin 1..Len(yes)
      <4>1. /\ i - Len(yes) \in 1..Len(unknown) /\ both[i] = unknown[i - Len(yes)]
            /\ k - Len(yes) \in 1..Len(unknown) /\ both[k] = unknown[k - Len(yes)]
        BY <2>3, <3>4
      <4>2. \A a \in 1..Len(unknown), b \in 1..Len(unknown) : unknown[a].url = unknown[b].url => a = b
        BY <2>2 DEF DistinctUrls
      <4>3. unknown[i - Len(yes)].url = unknown[k - Len(yes)].url
        BY <4>1
      <4>4. i - Len(yes) = k - Len(yes)
        BY <4>1, <4>2, <4>3
      <4> QED
        BY <2>3, <4>4
    <3> QED
      BY <3>1, <3>2, <3>3, <3>4
  <2>6. ASSUME NEW i \in 1..Len(both)
        PROVE  /\ both[i].url \notin seen /\ both[i].url \in Urls
               /\ \E j \in 1..Len(links) : both[i] = links[j] /\ links[j].dir # "no"
    <3>1. CASE i \in 1..Len(yes)
      <4>1. PICK j \in 1..Len(links) : yes[i] = links[j]
        BY <2>1, <3>1
      <4> QED
        BY <1>2, <2>1, <2>3, <3>1, <4>1
    <3>2. CASE i - Len(yes) \in 1..Len(unknown) /\ both[i] = unknown[i - Len(yes)]
      <4> DEFINE k == i - Len(yes)
      <4>1. k \in 1..Len(unknown) /\ both[i] = unknown[k]
        BY <3>2
      <4> HIDE DEF k
      <4>2. PICK j \in 1..Len(links) : unknown[k] = links[j]
        BY <2>2, <4>1
      <4> QED
        BY <1>2, <2>2, <4>1, <4>2
    <3> QED
      BY <2>3, <3>1, <3>2
  <2>7. \A j \in 1..Len(links) : links[j].dir # "no" /\ links[j].url \notin seen =>
           \E i \in 1..Len(both) : both[i].url = links[j].url
    <3> SUFFICES ASSUME NEW j \in 1..Len(links), links[j].dir # "no", links[j].url \notin seen
                 PROVE  \E i \in 1..Len(both) : both[i].url = links[j].url
      OBVIOUS
    <3>1. CASE links[j].dir = "yes"
      <4>1. PICK i \in 1..Len(yes) : yes[i] = links[j]
        BY <2>1, <3>1
      <4>2. i \in 1..Len(both) /\ both[i] = links[j]
        BY <2>3, <4>1
      <4> QED
        BY <4>2
    <3>2. CASE links[j].dir = "unknown"
      <4>1. PICK i \in 1..Len(unknown) : unknown[i] = links[j]
        BY <2>2, <3>2
      <4>2. Len(yes) + i \in 1..Len(both) /\ both[Len(yes) + i] = links[j]
        BY <2>3, <4>1
      <4> QED
        BY <4>2
    <3> QED
      BY <1>2, <3>1, <3>2
  <2>8. Follow(links) = both
    BY <1>3 DEF Follow, both, yes, unknown
  <2>9. both \in Seq(Link) /\ ~(task.level > depth)
    BY <1>3, <2>3
  <2> QED
    BY <2>5, <2>6, <2>7, <2>8, <2>9
<1>4. CASE task.level = depth
  <2> DEFINE chosen == {l \in Range(links) : l.dir = "unknown" /\ l.url \notin seen /\ l.url \in pattern.url}
  <2>1. Follow(links) = Only(links, chosen)
    BY <1>4 DEF Follow, Matching
  <2>2. /\ \A j \in 1..Len(links) : links[j] \in chosen <=>
              links[j].dir = "unknown" /\ links[j].url \notin seen /\ links[j].url \in pattern.url
        /\ \A l \in chosen : l.url \notin seen
    BY <1>1
  <2> HIDE DEF chosen
  <2>3. /\ Follow(links) \in Seq(Link) /\ DistinctUrls(Follow(links))
        /\ \A i \in 1..Len(Follow(links)) :
              Follow(links)[i] \in chosen /\ \E j \in 1..Len(links) : Follow(links)[i] = links[j]
        /\ \A j \in 1..Len(links) : links[j] \in chosen =>
              \E i \in 1..Len(Follow(links)) : Follow(links)[i] = links[j]
    BY <2>1, OnlyLinks
  <2>4. ASSUME NEW i \in 1..Len(Follow(links))
        PROVE  /\ Follow(links)[i].url \notin seen /\ Follow(links)[i].url \in Urls
               /\ \E j \in 1..Len(links) : Follow(links)[i] = links[j] /\ links[j].dir # "no"
    <3>1. PICK j \in 1..Len(links) : Follow(links)[i] = links[j]
      BY <2>3
    <3>2. links[j].dir # "no" /\ links[j].url \notin seen
      BY <2>2, <2>3, <3>1
    <3> QED
      BY <1>2, <3>1, <3>2
  <2>5. \A j \in 1..Len(links) : links[j] \in chosen =>
           \E i \in 1..Len(Follow(links)) : Follow(links)[i].url = links[j].url
    BY <2>3
  <2> QED
    BY <1>4, <2>2, <2>3, <2>4, <2>5
<1>5. CASE task.level > depth
  <2>1. Follow(links) = <<>>
    BY <1>5 DEF Follow
  <2> QED
    BY <1>5, <2>1 DEF DistinctUrls
<1> QED
  BY <1>3, <1>4, <1>5

-----------------------------------------------------------------------------
(* The inductive invariant.                                                *)

\* A task lies within the levels, and only the last one asks for files alone.
LevelOK(t) == t.level \in 1..depth + 1 /\ (t.only <=> t.level = depth + 1)

\* The queue is a breadth-first one: the tasks wait in the order of their
\* levels, none of them below that of the task or more than one above it.
Levels ==
    /\ LevelOK(task)
    /\ \A i \in 1..Len(queue) : LevelOK(queue[i]) /\ queue[i].level \in {task.level, task.level + 1}
    /\ \A i, j \in 1..Len(queue) : i <= j => queue[i].level <= queue[j].level

\* What led to the request that is about to be made.
Phase ==
    /\ step = "probing" => only = task.only /\ ~retry
    /\ step = "asking" =>
        /\ method \in Verbs
        /\ only => task.only /\ method = task.hint
        /\ task.only /\ ~only => site[task.url].options = "dav"
        /\ IF retry
           THEN ~only /\ AskedFirst(task.url, Other(method)) /\ Elsewhere(task.url, Other(method))
           ELSE AskedFirst(task.url, method)

\* The method hints are those of a link or a listing.
Hints == HintOK(task) /\ \A i \in 1..Len(queue) : HintOK(queue[i])

\* A URL waits once, and only until it is taken.
TakenOnce ==
    /\ Distinct(taken) /\ DistinctUrls(queue)
    /\ \A i \in 1..Len(queue) :
        queue[i].url \in seen /\ \A k \in 1..Len(taken) : taken[k] # queue[i].url
    /\ \A k \in 1..Len(taken) : taken[k] \in seen

CrawlInvariant == InputsOK /\ CrawlTypeOK /\ Levels /\ Phase /\ Hints /\ TakenOnce /\ DepthKept

Wanted(f) == Recognisable(f) /\ f \in pattern.name

\* c waits, is being explored or was opened, at level n or before.
Waits(c, n) == \E i \in 1..Len(queue) : queue[i].url = c /\ queue[i].level <= n
Current(c, n) == step \in {"probing", "asking"} /\ task.url = c /\ task.level <= n
Opened(c, n) == Readable(c) => \E t \in opened : t.url = c /\ t.level <= n
Met(c, n) == Waits(c, n) \/ Current(c, n) \/ Opened(c, n)
\* f is listed, or will be.
Listed(f) == Waits(f, depth + 1) \/ Current(f, depth + 1) \/ f \in Range(yielded)

\* Nothing is lost on the way: the root is met at the first level, what an
\* opened page leads to at the next one at the latest, whoever met it first, and
\* the files it links to are listed.
NothingLost ==
    /\ Met(Root, 1)
    /\ task.level <= depth => \A c \in seen : Met(c, task.level + 1)
    /\ \A f \in seen : Wanted(f) => Listed(f)
    /\ \A t \in opened : t.level < depth => \A c \in LeadsTo(t.url) : Met(c, t.level + 1)
    /\ \A t \in opened : t.level <= depth /\ Readable(t.url) =>
        \A f \in Range(site[t.url].children) : Wanted(f) => Listed(f)

Telling == pattern.name \subseteq pattern.url
ListingInvariant == Telling => NothingLost

-----------------------------------------------------------------------------
(* What explore_resource's answer does to the crawl.                       *)

\* What a server may answer in no two ways at once: a response sends the client to
\* the other method or shows links, and what is read for its links is no file.
LEMMA Answers ==
    ASSUME NEW u
    PROVE  /\ \A verb \in Verbs : ~(Shows(u, verb) /\ Elsewhere(u, verb)) /\ Other(verb) \in Verbs
                                 /\ Other(Other(verb)) = verb
           /\ Readable(u) => ~Recognisable(u)
<1>1. ASSUME NEW verb \in Verbs
      PROVE  /\ ~(Shows(u, verb) /\ Elsewhere(u, verb))
             /\ Other(verb) \in Verbs /\ Other(Other(verb)) = verb
  BY DEF Verbs, Shows, Elsewhere, Other
<1>2. ASSUME Readable(u), Recognisable(u)
      PROVE  FALSE
  <2>1. /\ site[u].reply["GET"].form = "file" /\ site[u].type # "page"
        /\ site[u].options \in {"dav", "allow"} =>
              site[u].reply["PROPFIND"].form \in {"refused", "file", "links"}
        /\ site[u].options # "fails"
    BY <1>2 DEF Recognisable
  <2>2. ~Shows(u, "GET")
    BY <2>1 DEF Shows
  <2>3. site[u].options \in {"dav", "allow"} => ~Shows(u, "PROPFIND")
    BY <2>1 DEF Shows
  <2>4. site[u].options # "none"
    BY <1>2, <2>1 DEF Readable
  <2>5. "GET" \in Verbs /\ "PROPFIND" \in Verbs /\ Other("PROPFIND") = "GET" /\ Other("GET") = "PROPFIND"
    BY DEF Verbs, Other
  <2>6. CASE site[u].options \in {"dav", "allow"}
    <3>1. AskedFirst(u, "PROPFIND")
      BY <2>6 DEF AskedFirst
    <3> QED
      BY <1>2, <2>2, <2>3, <2>5, <2>6, <3>1 DEF Readable
  <2>7. CASE site[u].options \notin {"dav", "allow"}
    <3>1. AskedFirst(u, "GET")
      BY <2>7 DEF AskedFirst
    <3>2. ~Elsewhere(u, "GET")
      BY <2>1 DEF Elsewhere
    <3> QED
      BY <1>2, <2>2, <2>5, <3>1, <3>2 DEF Readable
  <2> QED
    BY <2>6, <2>7
<1> QED
  BY <1>1, <1>2

\* The server does not change while it is crawled.
LEMMA SameServer ==
    ASSUME site' = site, pattern' = pattern
    PROVE  /\ \A u, verb : AskedFirst(u, verb)' = AskedFirst(u, verb)
                          /\ Elsewhere(u, verb)' = Elsewhere(u, verb)
           /\ \A u : LeadsTo(u)' = LeadsTo(u) /\ Readable(u)' = Readable(u) /\ Wanted(u)' = Wanted(u)
           /\ \A x : HintOK(x)' = HintOK(x)
BY DEF AskedFirst, Elsewhere, Shows, Readable, LeadsTo, LinkTo, DavLink, JsonLink, HtmlLink, Wanted,
       Recognisable, HintOK

LEMMA Concatenation ==
    ASSUME NEW S, NEW s \in Seq(S), NEW t \in Seq(S)
    PROVE  /\ s \o t \in Seq(S) /\ Len(s \o t) = Len(s) + Len(t)
           /\ Len(s) \in Nat /\ Len(t) \in Nat
           /\ \A i \in 1..Len(s) : (s \o t)[i] = s[i]
           /\ \A i \in 1..Len(t) : (s \o t)[Len(s) + i] = t[i]
OBVIOUS

LEMMA RangeOfConcat ==
    ASSUME NEW S, NEW s \in Seq(S), NEW t \in Seq(S)
    PROVE  s \o t \in Seq(S) /\ Range(s \o t) = Range(s) \union Range(t)
<1> DEFINE st == s \o t
<1>1. /\ st \in Seq(S) /\ DOMAIN st = 1..Len(st) /\ Len(st) = Len(s) + Len(t)
      /\ DOMAIN s = 1..Len(s) /\ DOMAIN t = 1..Len(t) /\ Len(s) \in Nat /\ Len(t) \in Nat
      /\ \A i \in 1..Len(s) : st[i] = s[i]
      /\ \A i \in 1..Len(t) : st[Len(s) + i] = t[i]
      /\ \A i \in 1..Len(st) : \/ i \in 1..Len(s)
                               \/ i - Len(s) \in 1..Len(t) /\ st[i] = t[i - Len(s)]
  OBVIOUS
<1> HIDE DEF st
<1>2. \A i \in 1..Len(t) : Len(s) + i \in 1..Len(st)
  BY <1>1
<1>3. \A i \in 1..Len(s) : i \in 1..Len(st)
  BY <1>1
<1>4. Range(st) = Range(s) \union Range(t)
  <2>1. ASSUME NEW i \in 1..Len(st)
        PROVE  st[i] \in Range(s) \/ st[i] \in Range(t)
    BY <1>1 DEF Range
  <2>2. Range(s) \subseteq Range(st)
    BY <1>1, <1>3 DEF Range
  <2>3. Range(t) \subseteq Range(st)
    <3> SUFFICES ASSUME NEW i \in 1..Len(t)
                 PROVE  t[i] \in Range(st)
      BY <1>1 DEF Range
    <3> QED
      BY <1>1, <1>2 DEF Range
  <2>4. Range(st) \subseteq Range(s) \union Range(t)
    BY <1>1, <2>1 DEF Range
  <2> QED
    BY <2>2, <2>3, <2>4
<1> QED
  BY <1>1, <1>4 DEF st

LEMMA RangeOfUrls ==
    ASSUME NEW links \in Seq(Link)
    PROVE  UrlsOf(links) \in Seq(Urls) /\ Range(UrlsOf(links)) = {links[i].url : i \in 1..Len(links)}
<1>1. ASSUME NEW i \in 1..Len(links)
      PROVE  links[i].url \in Urls
  <2>1. links[i] \in Link
    OBVIOUS
  <2> QED
    BY <2>1 DEF Link
<1> QED
  BY <1>1 DEF UrlsOf, Range

LEMMA NoLinks ==
    /\ <<>> \in Seq(Link) /\ DistinctUrls(<<>>) /\ <<>> \in Seq(Urls)
    /\ \A i \in 1..Len(<<>>) : <<>>[i].dir # "no" => HintOK(<<>>[i])
BY DEF DistinctUrls

LEMMA DigestQueue ==
    ASSUME CrawlInvariant, NEW files, NEW links \in Seq(Link), DistinctUrls(links),
           Digest(files, links)
    PROVE  /\ queue' \in Seq(Task) /\ Len(queue') = Len(queue) + Len(Follow(links))
           /\ Len(queue) \in Nat /\ Len(Follow(links)) \in Nat
           /\ \A i \in 1..Len(queue) : queue'[i] = queue[i] /\ i \in 1..Len(queue')
           /\ \A i \in 1..Len(Follow(links)) :
                 /\ Len(queue) + i \in 1..Len(queue')
                 /\ queue'[Len(queue) + i].url = Follow(links)[i].url
                 /\ queue'[Len(queue) + i].level = task.level + 1
                 /\ queue'[Len(queue) + i].only = (task.level = depth)
                 /\ queue'[Len(queue) + i].hint = Follow(links)[i].hint
                 /\ task.level <= depth
           /\ \A i \in 1..Len(queue') :
                 \/ i \in 1..Len(queue)
                 \/ \E k \in 1..Len(Follow(links)) : i = Len(queue) + k
<1> DEFINE next == Follow(links)
           new == [i \in 1..Len(next) |->
                [url |-> next[i].url, level |-> task.level + 1, hint |-> next[i].hint,
                 only |-> task.level = depth]]
<1>1. queue \in Seq(Task) /\ task.level \in Nat /\ depth \in Nat
  BY InputFields DEF CrawlInvariant, CrawlTypeOK, Task
<1>2. next \in Seq(Link) /\ (task.level > depth => next = <<>>)
  BY <1>1, FollowWell
<1>3. queue' = queue \o new
  BY DEF Digest
<1> HIDE DEF next
<1>4. ASSUME NEW i \in 1..Len(next)
      PROVE  new[i] \in Task /\ new[i].url = next[i].url
             /\ new[i].level = task.level + 1 /\ new[i].only = (task.level = depth)
             /\ new[i].hint = next[i].hint
  <2>1. next[i] \in Link
    BY <1>2
  <2> QED
    BY <1>1, <2>1 DEF Task, Link
<1>5. new \in Seq(Task) /\ Len(new) = Len(next) /\ Len(next) \in Nat
  BY <1>2, <1>4
<1> HIDE DEF new
<1>6. \A i \in 1..Len(next) : task.level <= depth
  BY <1>1, <1>2
<1>7. /\ queue' \in Seq(Task) /\ Len(queue') = Len(queue) + Len(next) /\ Len(queue) \in Nat
      /\ \A i \in 1..Len(queue) : queue'[i] = queue[i]
      /\ \A i \in 1..Len(next) : queue'[Len(queue) + i] = new[i]
  <2> DEFINE both == queue \o new
  <2>1. /\ both \in Seq(Task) /\ Len(both) = Len(queue) + Len(new) /\ Len(queue) \in Nat
        /\ \A i \in 1..Len(queue) : both[i] = queue[i]
        /\ \A i \in 1..Len(new) : both[Len(queue) + i] = new[i]
    <3>1. queue \in Seq(Task)
      BY <1>1
    <3>2. new \in Seq(Task)
      BY <1>5
    <3> QED
      BY <3>1, <3>2, Concatenation
  <2>2. queue' = both
    BY <1>3
  <2> HIDE DEF both
  <2> QED
    BY <1>5, <2>1, <2>2
<1>8. ASSUME NEW i \in 1..Len(queue'), i \notin 1..Len(queue)
      PROVE  \E k \in 1..Len(next) : i = Len(queue) + k
  <2>1. i - Len(queue) \in 1..Len(next) /\ i = Len(queue) + (i - Len(queue))
    BY <1>5, <1>7, <1>8
  <2> QED
    BY <2>1
<1>9. /\ \A i \in 1..Len(queue) : i \in 1..Len(queue')
      /\ \A i \in 1..Len(next) : Len(queue) + i \in 1..Len(queue')
  BY <1>5, <1>7
<1> QED
  BY <1>4, <1>5, <1>6, <1>7, <1>8, <1>9 DEF next

LEMMA DigestLists ==
    ASSUME CrawlInvariant, NEW files \in Seq(Urls), NEW links \in Seq(Link), DistinctUrls(links),
           Digest(files, links)
    PROVE  /\ yielded' \in Seq(Urls) /\ Range(yielded) \subseteq Range(yielded')
           /\ \A f \in Range(files) : f \in pattern.name => f \in Range(yielded')
           /\ \A i \in 1..Len(links) :
                 links[i].dir = "no" /\ links[i].url \in pattern.name => links[i].url \in Range(yielded')
           /\ seen' = seen \union {Follow(links)[i].url : i \in 1..Len(Follow(links))}
           /\ seen' \subseteq Urls
<1>1. yielded \in Seq(Urls) /\ task.level \in Nat /\ depth \in Nat /\ seen \subseteq Urls
  BY InputFields DEF CrawlInvariant, CrawlTypeOK, Task
<1> DEFINE no == OfKind(links, "no")
           found == files \o UrlsOf(no)
           listed == Only(found, pattern.name)
<1>2. no \in Seq(Link) /\ Range(no) = {l \in Range(links) : l.dir = "no"}
  <2> DEFINE chosen == {l \in Range(links) : l.dir = "no"}
  <2>1. no = Only(links, chosen) /\ Range(links) \intersect chosen = chosen
    BY DEF OfKind
  <2> HIDE DEF chosen, no
  <2>2. no \in Seq(Link) /\ Range(no) = chosen
    BY <2>1, RangeOfOnly
  <2> QED
    BY <2>2 DEF chosen
<1> HIDE DEF no
<1>3. UrlsOf(no) \in Seq(Urls) /\ Range(UrlsOf(no)) = {no[i].url : i \in 1..Len(no)}
  BY <1>2, RangeOfUrls
<1>4. found \in Seq(Urls) /\ Range(found) = Range(files) \union Range(UrlsOf(no))
  BY <1>3, RangeOfConcat
<1> HIDE DEF found
<1>5. listed \in Seq(Urls) /\ Range(listed) = Range(found) \intersect pattern.name
  BY <1>4, RangeOfOnly
<1>6. yielded' = yielded \o listed
  BY DEF Digest, listed, found, no
<1> HIDE DEF listed
<1>7. yielded' \in Seq(Urls) /\ Range(yielded') = Range(yielded) \union Range(listed)
  BY <1>1, <1>5, <1>6, RangeOfConcat
<1>8. ASSUME NEW i \in 1..Len(links), links[i].dir = "no", links[i].url \in pattern.name
      PROVE  links[i].url \in Range(yielded')
  <2>1. links[i] \in Range(no)
    BY <1>2, <1>8 DEF Range
  <2>2. PICK k \in 1..Len(no) : no[k] = links[i]
    BY <1>2, <2>1 DEF Range
  <2>3. links[i].url \in Range(UrlsOf(no))
    BY <1>3, <2>2
  <2> QED
    BY <1>4, <1>5, <1>7, <1>8, <2>3
<1>9. Follow(links) \in Seq(Link) /\ \A i \in 1..Len(Follow(links)) : Follow(links)[i].url \in Urls
  BY <1>1, FollowWell
<1>10. seen' = seen \union Range(UrlsOf(Follow(links)))
  BY DEF Digest
<1>11. Range(UrlsOf(Follow(links))) = {Follow(links)[i].url : i \in 1..Len(Follow(links))}
  BY <1>9, RangeOfUrls
<1> QED
  BY <1>1, <1>4, <1>5, <1>7, <1>8, <1>9, <1>10, <1>11

LEMMA DigestLevels ==
    ASSUME CrawlInvariant, NEW files, NEW links \in Seq(Link), DistinctUrls(links),
           Digest(files, links)
    PROVE  Levels'
<1> DEFINE next == Follow(links)
<1>1. /\ queue' \in Seq(Task) /\ Len(queue') = Len(queue) + Len(next)
      /\ Len(queue) \in Nat /\ Len(next) \in Nat
      /\ \A i \in 1..Len(queue) : queue'[i] = queue[i]
      /\ \A i \in 1..Len(next) : /\ queue'[Len(queue) + i].level = task.level + 1
                                 /\ queue'[Len(queue) + i].only = (task.level = depth)
                                 /\ task.level <= depth
      /\ \A i \in 1..Len(queue') : \/ i \in 1..Len(queue)
                                   \/ \E k \in 1..Len(next) : i = Len(queue) + k
  BY DigestQueue
<1>2. task' = task /\ depth' = depth /\ depth \in Nat
  BY InputFields DEF Digest, inputs, CrawlInvariant
<1>3. /\ LevelOK(task) /\ task.level \in 1..depth + 1
      /\ \A i \in 1..Len(queue) : LevelOK(queue[i]) /\ queue[i].level \in {task.level, task.level + 1}
      /\ \A i, j \in 1..Len(queue) : i <= j => queue[i].level <= queue[j].level
  BY DEF CrawlInvariant, Levels, LevelOK
<1> HIDE DEF next
<1>4. LevelOK(task)'
  BY <1>2, <1>3 DEF LevelOK
<1>5. ASSUME NEW i \in 1..Len(queue')
      PROVE  /\ LevelOK(queue[i])'
             /\ queue'[i].level \in {task.level, task.level + 1}
             /\ i \notin 1..Len(queue) => queue'[i].level = task.level + 1
  <2>1. CASE i \in 1..Len(queue)
    <3>1. LevelOK(queue[i]) /\ queue'[i] = queue[i]
      BY <1>1, <1>3, <2>1
    <3>2. LevelOK(queue[i])'
      BY <1>2, <3>1 DEF LevelOK
    <3> QED
      BY <1>3, <2>1, <3>1, <3>2
  <2>2. CASE i \notin 1..Len(queue)
    <3>1. PICK k \in 1..Len(next) : i = Len(queue) + k
      BY <1>1, <2>2
    <3>2. /\ queue'[i].level = task.level + 1 /\ queue'[i].only = (task.level = depth)
          /\ task.level <= depth
      BY <1>1, <3>1
    <3>3. LevelOK(queue[i])'
      <4>1. task.level + 1 = depth + 1 <=> task.level = depth
        BY <1>2, <1>3
      <4>2. queue'[i].only <=> queue'[i].level = depth + 1
        BY <3>2, <4>1, Zenon
      <4>3. queue'[i].level \in 1..depth + 1
        BY <1>2, <1>3, <3>2
      <4> QED
        BY <1>2, <4>2, <4>3 DEF LevelOK
    <3> QED
      BY <3>2, <3>3
  <2> QED
    BY <2>1, <2>2
<1>6. ASSUME NEW i \in 1..Len(queue'), NEW j \in 1..Len(queue'), i <= j
      PROVE  queue'[i].level <= queue'[j].level
  <2>1. CASE j \in 1..Len(queue)
    <3>1. i \in 1..Len(queue)
      BY <1>1, <1>6, <2>1
    <3> QED
      BY <1>1, <1>3, <1>6, <2>1, <3>1
  <2>2. CASE j \notin 1..Len(queue)
    <3>1. queue'[j].level = task.level + 1
      BY <1>5, <2>2
    <3>2. queue'[i].level \in {task.level, task.level + 1}
      BY <1>5
    <3> QED
      BY <1>3, <3>1, <3>2
  <2> QED
    BY <2>1, <2>2
<1> QED
  BY <1>2, <1>4, <1>5, <1>6 DEF Levels

LEMMA DigestTakenOnce ==
    ASSUME CrawlInvariant, NEW files \in Seq(Urls), NEW links \in Seq(Link), DistinctUrls(links),
           Digest(files, links)
    PROVE  TakenOnce'
<1> DEFINE next == Follow(links)
<1>1. /\ Len(queue') = Len(queue) + Len(next)
      /\ Len(queue) \in Nat /\ Len(next) \in Nat
      /\ \A i \in 1..Len(queue) : queue'[i] = queue[i]
      /\ \A i \in 1..Len(next) : queue'[Len(queue) + i].url = next[i].url
      /\ \A i \in 1..Len(queue') : \/ i \in 1..Len(queue)
                                   \/ \E k \in 1..Len(next) : i = Len(queue) + k
  BY DigestQueue
<1>2. seen' = seen \union {next[i].url : i \in 1..Len(next)}
  BY DigestLists
<1>3. taken' = taken
  BY DEF Digest
<1>4. /\ Distinct(taken) /\ DistinctUrls(queue)
      /\ \A i \in 1..Len(queue) :
           queue[i].url \in seen /\ \A k \in 1..Len(taken) : taken[k] # queue[i].url
      /\ \A k \in 1..Len(taken) : taken[k] \in seen
  BY DEF CrawlInvariant, TakenOnce
<1>5. DistinctUrls(next) /\ \A i \in 1..Len(next) : next[i].url \notin seen
  <2>1. task.level \in Nat /\ depth \in Nat
    BY InputFields DEF CrawlInvariant, CrawlTypeOK, Task
  <2> QED
    BY <2>1, FollowWell
<1> HIDE DEF next
<1>6. ASSUME NEW i \in 1..Len(queue')
      PROVE  /\ i \in 1..Len(queue) => queue'[i].url = queue[i].url /\ queue'[i].url \in seen
             /\ i \notin 1..Len(queue) => \E k \in 1..Len(next) :
                    i = Len(queue) + k /\ queue'[i].url = next[k].url /\ queue'[i].url \notin seen
  <2>1. CASE i \in 1..Len(queue)
    BY <1>1, <1>4, <2>1
  <2>2. CASE i \notin 1..Len(queue)
    <3>1. PICK k \in 1..Len(next) : i = Len(queue) + k
      BY <1>1, <2>2
    <3> QED
      BY <1>1, <1>5, <2>2, <3>1
  <2> QED
    BY <2>1, <2>2
<1>7. DistinctUrls(queue')
  <2> SUFFICES ASSUME NEW i \in 1..Len(queue'), NEW j \in 1..Len(queue'), queue'[i].url = queue'[j].url
               PROVE  i = j
    BY DEF DistinctUrls
  <2>1. CASE i \in 1..Len(queue) /\ j \in 1..Len(queue)
    BY <1>4, <1>6, <2>1 DEF DistinctUrls
  <2>2. CASE i \in 1..Len(queue) /\ j \notin 1..Len(queue)
    BY <1>6, <2>2
  <2>3. CASE i \notin 1..Len(queue) /\ j \in 1..Len(queue)
    BY <1>6, <2>3
  <2>4. CASE i \notin 1..Len(queue) /\ j \notin 1..Len(queue)
    <3>1. PICK k \in 1..Len(next) : i = Len(queue) + k /\ queue'[i].url = next[k].url
      BY <1>6, <2>4
    <3>2. PICK l \in 1..Len(next) : j = Len(queue) + l /\ queue'[j].url = next[l].url
      BY <1>6, <2>4
    <3>3. k = l
      BY <1>5, <3>1, <3>2 DEF DistinctUrls
    <3> QED
      BY <3>1, <3>2, <3>3
  <2> QED
    BY <2>1, <2>2, <2>3, <2>4
<1>8. ASSUME NEW i \in 1..Len(queue')
      PROVE  queue'[i].url \in seen' /\ \A k \in 1..Len(taken) : taken[k] # queue'[i].url
  <2>1. CASE i \in 1..Len(queue)
    BY <1>2, <1>4, <1>6, <2>1
  <2>2. CASE i \notin 1..Len(queue)
    <3>1. PICK k \in 1..Len(next) : queue'[i].url = next[k].url /\ queue'[i].url \notin seen
      BY <1>6, <2>2
    <3> QED
      BY <1>2, <1>4, <3>1
  <2> QED
    BY <2>1, <2>2
<1>9. \A k \in 1..Len(taken) : taken[k] \in seen'
  BY <1>2, <1>4
<1> QED
  BY <1>3, <1>4, <1>7, <1>8, <1>9 DEF TakenOnce, Distinct

LEMMA DigestHints ==
    ASSUME CrawlInvariant, NEW files, NEW links \in Seq(Link), DistinctUrls(links),
           Digest(files, links),
           \A i \in 1..Len(links) : links[i].dir # "no" => HintOK(links[i])
    PROVE  Hints'
<1> DEFINE next == Follow(links)
<1>1. /\ \A i \in 1..Len(queue) : queue'[i] = queue[i]
      /\ \A i \in 1..Len(next) : /\ queue'[Len(queue) + i].url = next[i].url
                                 /\ queue'[Len(queue) + i].hint = next[i].hint
      /\ \A i \in 1..Len(queue') : \/ i \in 1..Len(queue)
                                   \/ \E k \in 1..Len(next) : i = Len(queue) + k
  BY DigestQueue
<1>2. task' = task /\ site' = site /\ pattern' = pattern
  BY DEF Digest, inputs
<1>3. HintOK(task) /\ \A i \in 1..Len(queue) : HintOK(queue[i])
  BY DEF CrawlInvariant, Hints
<1>4. \A i \in 1..Len(next) : \E j \in 1..Len(links) : next[i] = links[j] /\ links[j].dir # "no"
  <2>1. task.level \in Nat /\ depth \in Nat
    BY InputFields DEF CrawlInvariant, CrawlTypeOK, Task
  <2> QED
    BY <2>1, FollowWell
<1> HIDE DEF next
<1>5. \A x : HintOK(x)' = HintOK(x)
  BY <1>2, SameServer
<1>6. ASSUME NEW i \in 1..Len(queue')
      PROVE  HintOK(queue'[i])
  <2>1. CASE i \in 1..Len(queue)
    BY <1>1, <1>3, <2>1
  <2>2. CASE i \notin 1..Len(queue)
    <3>1. PICK k \in 1..Len(next) : i = Len(queue) + k
      BY <1>1, <2>2
    <3>2. HintOK(next[k])
      BY <1>4
    <3> QED
      BY <1>1, <3>1, <3>2 DEF HintOK
  <2> QED
    BY <2>1, <2>2
<1>7. HintOK(task)' /\ \A i \in 1..Len(queue') : HintOK(queue[i])'
  BY <1>2, <1>3, <1>6 DEF HintOK, AskedFirst
<1> QED
  BY <1>7 DEF Hints

\* Every answer keeps the invariant, as far as it does not depend on opened.
LEMMA DigestKeeps ==
    ASSUME CrawlInvariant, NEW files \in Seq(Urls), NEW links \in Seq(Link), DistinctUrls(links),
           Digest(files, links), opened' \subseteq Task,
           \A i \in 1..Len(links) : links[i].dir # "no" => HintOK(links[i]),
           \A t \in opened' : t \in opened \/ t.level <= depth \/ site[t.url].options = "dav"
    PROVE  CrawlInvariant'
<1>1. InputsOK'
  BY DEF CrawlInvariant, InputsOK, Digest, inputs
<1>2. CrawlTypeOK'
  <2>1. queue' \in Seq(Task)
    BY DigestQueue
  <2>2. yielded' \in Seq(Urls) /\ seen' \subseteq Urls
    BY DigestLists
  <2> QED
    BY <2>1, <2>2 DEF CrawlInvariant, CrawlTypeOK, Digest
<1>3. Phase'
  BY DEF Phase, Digest
<1>4. DepthKept'
  BY DEF CrawlInvariant, DepthKept, Digest, inputs
<1>5. Hints'
  BY DigestHints
<1> QED
  BY <1>1, <1>2, <1>3, <1>4, <1>5, DigestLevels, DigestTakenOnce DEF CrawlInvariant

-----------------------------------------------------------------------------
(* The steps keep the invariant.                                           *)

LEMMA FirstAndRest ==
    ASSUME NEW S, NEW s \in Seq(S), s # <<>>
    PROVE  /\ Head(s) = s[1] /\ s[1] \in S /\ Len(s) \in Nat /\ 1 \in 1..Len(s)
           /\ Tail(s) \in Seq(S) /\ Len(Tail(s)) = Len(s) - 1 /\ Len(Tail(s)) \in Nat
           /\ \A i \in 1..Len(Tail(s)) : i + 1 \in 1..Len(s) /\ Tail(s)[i] = s[i + 1]
OBVIOUS

LEMMA OneMore ==
    ASSUME NEW S, NEW s \in Seq(S), NEW e \in S
    PROVE  /\ Append(s, e) \in Seq(S) /\ Len(Append(s, e)) = Len(s) + 1 /\ Len(s) \in Nat
           /\ \A i \in 1..Len(s) : Append(s, e)[i] = s[i]
           /\ Append(s, e)[Len(s) + 1] = e
OBVIOUS

LEMMA TakeTaskKeeps ==
    ASSUME CrawlInvariant, TakeTask
    PROVE  CrawlInvariant'
<1>1. /\ queue \in Seq(Task) /\ queue # <<>> /\ taken \in Seq(Urls)
      /\ task' = Head(queue) /\ queue' = Tail(queue) /\ taken' = Append(taken, task'.url)
      /\ depth' = depth /\ depth \in Nat /\ seen' = seen /\ retry' = FALSE /\ only' = task'.only
      /\ method' = task'.hint /\ step' = IF task'.hint = "UNKNOWN" THEN "probing" ELSE "asking"
  BY InputFields DEF CrawlInvariant, CrawlTypeOK, TakeTask, inputs
<1>2. /\ task' = queue[1] /\ task' \in Task /\ Len(queue) \in Nat /\ 1 \in 1..Len(queue)
      /\ queue' \in Seq(Task) /\ Len(queue') = Len(queue) - 1 /\ Len(queue') \in Nat
      /\ \A i \in 1..Len(queue') : i + 1 \in 1..Len(queue) /\ queue'[i] = queue[i + 1]
  BY <1>1, FirstAndRest
<1>3. /\ task'.url \in Urls /\ task'.hint \in {"GET", "PROPFIND", "UNKNOWN"}
      /\ task'.only \in BOOLEAN /\ task'.level \in Nat
  BY <1>2 DEF Task
<1>4. /\ taken' \in Seq(Urls) /\ Len(taken') = Len(taken) + 1 /\ Len(taken) \in Nat
      /\ \A i \in 1..Len(taken) : taken'[i] = taken[i]
      /\ taken'[Len(taken) + 1] = task'.url
  BY <1>1, <1>3, OneMore
<1>5. InputsOK'
  BY DEF CrawlInvariant, InputsOK, TakeTask, inputs
<1>6. CrawlTypeOK'
  BY <1>1, <1>2, <1>3, <1>4 DEF CrawlInvariant, CrawlTypeOK, TakeTask
<1>7. Levels'
  <2>1. /\ LevelOK(task) /\ task.level \in 1..depth + 1
        /\ \A i \in 1..Len(queue) : LevelOK(queue[i]) /\ queue[i].level \in {task.level, task.level + 1}
        /\ \A i, j \in 1..Len(queue) : i <= j => queue[i].level <= queue[j].level
    BY DEF CrawlInvariant, Levels, LevelOK
  <2>2. LevelOK(task)'
    BY <1>1, <1>2, <2>1 DEF LevelOK
  <2>3. ASSUME NEW i \in 1..Len(queue')
        PROVE  LevelOK(queue[i])' /\ queue'[i].level \in {task'.level, task'.level + 1}
    <3>1. i + 1 \in 1..Len(queue) /\ queue'[i] = queue[i + 1] /\ 1 <= i + 1
      BY <1>2
    <3>2. LevelOK(queue[i])'
      BY <1>1, <2>1, <3>1 DEF LevelOK
    <3>3. queue[1].level <= queue[i + 1].level
      BY <1>2, <2>1, <3>1
    <3>4. /\ queue[i + 1].level \in {task.level, task.level + 1}
          /\ queue[1].level \in {task.level, task.level + 1} /\ task.level \in Nat
      BY <1>2, <2>1, <3>1 DEF CrawlInvariant, CrawlTypeOK, Task
    <3> QED
      BY <1>2, <3>1, <3>2, <3>3, <3>4
  <2>4. ASSUME NEW i \in 1..Len(queue'), NEW j \in 1..Len(queue'), i <= j
        PROVE  queue'[i].level <= queue'[j].level
    <3>1. /\ i + 1 \in 1..Len(queue) /\ queue'[i] = queue[i + 1]
          /\ j + 1 \in 1..Len(queue) /\ queue'[j] = queue[j + 1]
      BY <1>2
    <3>2. i + 1 <= j + 1
      BY <1>2, <2>4
    <3>3. queue[i + 1].level <= queue[j + 1].level
      BY <2>1, <3>1, <3>2
    <3> QED
      BY <3>1, <3>3
  <2> QED
    BY <2>2, <2>3, <2>4 DEF Levels
<1>8. Phase' /\ Hints'
  <2>1. HintOK(task') /\ \A i \in 1..Len(queue') : HintOK(queue'[i])
    BY <1>2 DEF CrawlInvariant, Hints
  <2>2. site' = site /\ pattern' = pattern
    BY DEF TakeTask, inputs
  <2>3. /\ task'.hint = "GET" => AskedFirst(task.url, "GET")'
        /\ task'.hint = "PROPFIND" => AskedFirst(task.url, "PROPFIND")'
    BY <2>1, <2>2 DEF HintOK, AskedFirst
  <2>4. Phase'
    BY <1>1, <1>3, <2>3 DEF Phase, Verbs
  <2>5. HintOK(task)' /\ \A i \in 1..Len(queue') : HintOK(queue[i])'
    BY <2>1, <2>2 DEF HintOK, AskedFirst
  <2> QED
    BY <2>4, <2>5 DEF Hints
<1>9. TakenOnce'
  <2>1. /\ Distinct(taken) /\ DistinctUrls(queue)
        /\ \A i \in 1..Len(queue) :
             queue[i].url \in seen /\ \A k \in 1..Len(taken) : taken[k] # queue[i].url
        /\ \A k \in 1..Len(taken) : taken[k] \in seen
    BY DEF CrawlInvariant, TakenOnce
  <2>2. \A k \in 1..Len(taken') : \/ k \in 1..Len(taken) /\ taken'[k] = taken[k]
                                  \/ k = Len(taken) + 1 /\ taken'[k] = queue[1].url
    BY <1>2, <1>4
  <2>3. \A k \in 1..Len(taken') : taken'[k] \in seen'
    BY <1>1, <1>2, <2>1, <2>2
  <2>4. Distinct(taken')
    <3> SUFFICES ASSUME NEW i \in 1..Len(taken'), NEW j \in 1..Len(taken'), taken'[i] = taken'[j]
                 PROVE  i = j
      BY DEF Distinct
    <3>1. \A k \in 1..Len(taken) : taken[k] # queue[1].url
      BY <1>2, <2>1
    <3> QED
      BY <2>1, <2>2, <3>1 DEF Distinct
  <2>5. ASSUME NEW i \in 1..Len(queue')
        PROVE  queue'[i].url \in seen' /\ \A k \in 1..Len(taken') : taken'[k] # queue'[i].url
    <3>1. i + 1 \in 1..Len(queue) /\ queue'[i] = queue[i + 1] /\ i + 1 # 1
      BY <1>2
    <3>2. queue[i + 1].url # queue[1].url
      BY <1>2, <2>1, <3>1 DEF DistinctUrls
    <3> QED
      BY <1>1, <2>1, <2>2, <3>1, <3>2
  <2>6. DistinctUrls(queue')
    <3> SUFFICES ASSUME NEW i \in 1..Len(queue'), NEW j \in 1..Len(queue'),
                        queue'[i].url = queue'[j].url
                 PROVE  i = j
      BY DEF DistinctUrls
    <3>1. i + 1 = j + 1
      BY <1>2, <2>1 DEF DistinctUrls
    <3> QED
      BY <3>1
  <2> QED
    BY <2>3, <2>4, <2>5, <2>6 DEF TakenOnce, Distinct, DistinctUrls
<1>10. DepthKept'
  BY DEF CrawlInvariant, DepthKept, TakeTask, inputs
<1> QED
  BY <1>5, <1>6, <1>7, <1>8, <1>9, <1>10 DEF CrawlInvariant

\* Another request for the same task.
LEMMA AskKeeps ==
    ASSUME CrawlInvariant, NEW verb \in Verbs, NEW again \in BOOLEAN,
           AskWith(verb, again, FALSE),
           task.only => site[task.url].options = "dav",
           IF again THEN AskedFirst(task.url, Other(verb)) /\ Elsewhere(task.url, Other(verb))
           ELSE AskedFirst(task.url, verb)
    PROVE  CrawlInvariant'
<1>1. InputsOK' /\ CrawlTypeOK'
  BY DEF CrawlInvariant, InputsOK, CrawlTypeOK, AskWith, inputs, Verbs
<1>2. Levels'
  BY DEF CrawlInvariant, Levels, LevelOK, AskWith, inputs
<1>3. Phase'
  <2>1. /\ task' = task /\ site' = site /\ pattern' = pattern
        /\ step' = "asking" /\ method' = verb /\ retry' = again /\ only' = FALSE
    BY DEF AskWith, inputs
  <2>2. /\ again => AskedFirst(task.url, Other(method))' /\ Elsewhere(task.url, Other(method))'
        /\ ~again => AskedFirst(task.url, method)'
    BY <2>1 DEF AskedFirst, Elsewhere, Other
  <2> QED
    BY <2>1, <2>2 DEF Phase
<1>4. TakenOnce' /\ DepthKept'
  BY DEF CrawlInvariant, TakenOnce, Distinct, DistinctUrls, DepthKept, AskWith, inputs
<1>5. Hints'
  BY DEF CrawlInvariant, Hints, HintOK, AskedFirst, AskWith, inputs
<1> QED
  BY <1>1, <1>2, <1>3, <1>4, <1>5 DEF CrawlInvariant

LEMMA TaskFields ==
    ASSUME CrawlInvariant
    PROVE  /\ task.url \in Urls /\ task.level \in Nat /\ task.only \in BOOLEAN
           /\ depth \in Nat /\ task.level \in 1..depth + 1 /\ (task.only <=> task.level = depth + 1)
           /\ <<task.url>> \in Seq(Urls) /\ queue \in Seq(Task)
BY InputFields DEF CrawlInvariant, CrawlTypeOK, Task, Levels, LevelOK

\* What Classify makes of the answer.
ClassifiedFiles == IF IsFile(task.url, method) THEN <<task.url>> ELSE <<>>
ClassifiedLinks == Extract(task.url, method)

LEMMA Classified ==
    ASSUME CrawlInvariant, method \in Verbs
    PROVE  /\ ClassifiedFiles \in Seq(Urls)
           /\ ClassifiedLinks \in Seq(Link) /\ DistinctUrls(ClassifiedLinks)
           /\ \A i \in 1..Len(ClassifiedLinks) :
                 ClassifiedLinks[i].dir # "no" => HintOK(ClassifiedLinks[i])
<1>1. InputsOK /\ task.url \in Urls /\ <<task.url>> \in Seq(Urls)
  BY TaskFields DEF CrawlInvariant
<1> DEFINE links == ClassifiedLinks
<1>2. /\ links \in Seq(Link) /\ DistinctUrls(links)
      /\ \A i \in 1..Len(links) :
            \E c \in Range(site[task.url].children) : links[i] = LinkTo(task.url, method, c)
  BY <1>1, ExtractWell DEF ClassifiedLinks
<1> HIDE DEF links
<1>3. \A i \in 1..Len(links) : links[i].dir # "no" => HintOK(links[i])
  BY <1>1, <1>2, LinkWell
<1> QED
  BY <1>1, <1>2, <1>3, NoLinks DEF ClassifiedFiles, links

LEMMA StepKeeps ==
    ASSUME CrawlInvariant, [Next]_vars
    PROVE  CrawlInvariant'
<1>1. opened \subseteq Task
  BY DEF CrawlInvariant, CrawlTypeOK
<1>2. CASE TakeTask
  BY <1>2, TakeTaskKeeps
<1>3. CASE ProbeDav
  <2>1. /\ AskWith("PROPFIND", FALSE, FALSE) /\ (task.only => site[task.url].options = "dav")
        /\ AskedFirst(task.url, "PROPFIND") /\ "PROPFIND" \in Verbs
    BY <1>3 DEF ProbeDav, SpeaksDav, Probed, CrawlInvariant, Phase, AskedFirst, Verbs
  <2> QED
    BY <2>1, AskKeeps
<1>4. CASE ProbeFile
  <2>1. Digest(<<task.url>>, <<>>) /\ opened' = opened
    BY <1>4 DEF ProbeFile
  <2> QED
    BY <1>1, <2>1, DigestKeeps, NoLinks, TaskFields
<1>5. CASE ProbeNothing
  <2>1. CASE only
    <3>1. Digest(<<>>, <<>>) /\ opened' = opened
      BY <1>5, <2>1 DEF ProbeNothing
    <3> QED
      BY <1>1, <3>1, DigestKeeps, NoLinks
  <2>2. CASE ~only
    <3>1. AskWith("GET", FALSE, FALSE) /\ ~task.only /\ AskedFirst(task.url, "GET") /\ "GET" \in Verbs
      BY <1>5, <2>2 DEF ProbeNothing, SpeaksDav, Probed, CrawlInvariant, Phase, AskedFirst, Verbs
    <3> QED
      BY <3>1, AskKeeps
  <2> QED
    BY <2>1, <2>2
<1>6. CASE AskForFile
  <2> DEFINE files == IF LooksLikeFile THEN <<task.url>> ELSE <<>>
  <2>1. Digest(files, <<>>) /\ opened' = opened
    BY <1>6 DEF AskForFile
  <2>2. files \in Seq(Urls)
    BY NoLinks, TaskFields
  <2> HIDE DEF files
  <2> QED
    BY <1>1, <2>1, <2>2, DigestKeeps, NoLinks
<1>7. CASE Upgrade
  <2>1. /\ AskWith("PROPFIND", TRUE, FALSE) /\ (task.only => site[task.url].options = "dav")
        /\ Elsewhere(task.url, "GET") /\ AskedFirst(task.url, "GET")
        /\ Other("PROPFIND") = "GET" /\ "PROPFIND" \in Verbs
    BY <1>7 DEF Upgrade, CrawlInvariant, Phase, Other, Verbs
  <2> QED
    BY <2>1, AskKeeps
<1>8. CASE FallBack
  <2>1. /\ AskWith("GET", TRUE, FALSE) /\ (task.only => site[task.url].options = "dav")
        /\ Elsewhere(task.url, "PROPFIND") /\ AskedFirst(task.url, "PROPFIND")
        /\ Other("GET") = "PROPFIND" /\ "GET" \in Verbs
    BY <1>8 DEF FallBack, CrawlInvariant, Phase, Other, Verbs
  <2> QED
    BY <2>1, AskKeeps
<1>9. CASE Classify
  <2>1. Digest(ClassifiedFiles, ClassifiedLinks) /\ method \in Verbs
    BY <1>9 DEF Classify, ClassifiedFiles, ClassifiedLinks, CrawlInvariant, Phase
  <2>2. opened' \subseteq opened \union {task} /\ task \in Task
    BY <1>9 DEF Classify, CrawlInvariant, CrawlTypeOK
  <2>3. task.only => site[task.url].options = "dav"
    BY <1>9 DEF Classify, CrawlInvariant, Phase
  <2>4. \A t \in opened' : t \in opened \/ t.level <= depth \/ site[t.url].options = "dav"
    BY <2>2, <2>3, TaskFields
  <2> QED
    BY <1>1, <2>1, <2>2, <2>4, Classified, DigestKeeps
<1>10. CASE EndCrawl
  BY <1>10 DEF CrawlInvariant, InputsOK, CrawlTypeOK, Levels, LevelOK, Phase, Hints, HintOK, TakenOnce,
               Distinct, DistinctUrls, DepthKept, AskedFirst, EndCrawl, inputs
<1>11. CASE UNCHANGED vars
  BY <1>11 DEF CrawlInvariant, InputsOK, CrawlTypeOK, Levels, LevelOK, Phase, Hints, HintOK, TakenOnce,
               Distinct, DistinctUrls, DepthKept, AskedFirst, Elsewhere, vars, inputs
<1> QED
  BY <1>2, <1>3, <1>4, <1>5, <1>6, <1>7, <1>8, <1>9, <1>10, <1>11 DEF Next

LEMMA CrawlBegins ==
    ASSUME Init
    PROVE  CrawlInvariant
<1>1. InputsOK
  BY DEF Init, InputsOK
<1>2. depth \in Nat \ {0}
  BY <1>1, InputFields
<1>3. task \in Task /\ task.level = 1 /\ task.only = FALSE /\ task.url = Root
  BY CrawlAssumption DEF Init, Task
<1>4. queue = <<task>> /\ queue \in Seq(Task) /\ Len(queue) = 1 /\ queue[1] = task
  BY <1>3 DEF Init
<1>5. CrawlTypeOK
  <2>1. /\ seen = {Root} /\ step = "idle" /\ method = "UNKNOWN" /\ retry = FALSE /\ only = FALSE
        /\ yielded = <<>> /\ taken = <<>> /\ opened = {}
    BY DEF Init
  <2>2. seen \subseteq Urls
    BY <2>1, CrawlAssumption
  <2>3. yielded \in Seq(Urls) /\ taken \in Seq(Urls)
    BY <2>1, NoLinks
  <2> QED
    BY <1>3, <1>4, <2>1, <2>2, <2>3 DEF CrawlTypeOK
<1>6. Levels
  BY <1>2, <1>3, <1>4 DEF Levels, LevelOK
<1>7. Phase /\ DepthKept /\ Hints
  BY <1>3, <1>4 DEF Init, Phase, DepthKept, Hints, HintOK
<1>8. TakenOnce
  BY <1>3, <1>4 DEF Init, TakenOnce, Distinct, DistinctUrls
<1> QED
  BY <1>1, <1>5, <1>6, <1>7, <1>8 DEF CrawlInvariant

LEMMA CrawlGoesOn == Spec => []CrawlInvariant
<1>1. Init => CrawlInvariant
  BY CrawlBegins
<1>2. CrawlInvariant /\ [Next]_vars => CrawlInvariant'
  BY StepKeeps
<1> QED
  BY <1>1, <1>2, PTL DEF Spec

\* Every variable of the crawl keeps its type.
THEOREM CrawlTypes == Spec => []CrawlTypeOK
<1>1. CrawlInvariant => CrawlTypeOK
  BY DEF CrawlInvariant
<1> QED
  BY <1>1, CrawlGoesOn, PTL

\* No URL is explored twice, whatever the pages link to.
THEOREM NothingExploredTwice == Spec => []ExploredOnce
<1>1. CrawlInvariant => ExploredOnce
  <2>1. CrawlInvariant => taken \in Seq(Urls) /\ Distinct(taken)
    BY DEF CrawlInvariant, CrawlTypeOK, TakenOnce
  <2> QED
    BY <2>1 DEF ExploredOnce, IsInjective, Distinct
<1> QED
  BY <1>1, CrawlGoesOn, PTL

\* No page beyond the last level is opened without a DAV header that says so.
THEOREM DepthIsKept == Spec => []DepthKept
<1>1. CrawlInvariant => DepthKept
  BY DEF CrawlInvariant
<1> QED
  BY <1>1, CrawlGoesOn, PTL

-----------------------------------------------------------------------------
(* Nothing is lost.                                                        *)

LEMMA MetLater ==
    ASSUME NEW c, NEW n \in Nat, NEW m \in Nat, n <= m, Met(c, n), CrawlInvariant
    PROVE  Met(c, m)
<1>1. /\ queue \in Seq(Task) /\ opened \subseteq Task /\ task.level \in Nat
      /\ \A i \in 1..Len(queue) : queue[i].level \in Nat
      /\ \A t \in opened : t.level \in Nat
  <2>1. queue \in Seq(Task) /\ opened \subseteq Task
    BY DEF CrawlInvariant, CrawlTypeOK
  <2>2. \A t \in Task : t.level \in Nat
    BY DEF Task
  <2>3. \A i \in 1..Len(queue) : queue[i] \in Task
    BY <2>1
  <2> QED
    BY <2>1, <2>2, <2>3, TaskFields
<1>2. CASE Waits(c, n)
  <2>1. PICK i \in 1..Len(queue) : queue[i].url = c /\ queue[i].level <= n
    BY <1>2 DEF Waits
  <2>2. queue[i].level <= m
    BY <1>1, <2>1
  <2> QED
    BY <2>1, <2>2 DEF Met, Waits
<1>3. CASE Current(c, n)
  BY <1>1, <1>3 DEF Met, Current
<1>4. CASE Opened(c, n)
  <2>1. CASE Readable(c)
    <3>1. PICK t \in opened : t.url = c /\ t.level <= n
      BY <1>4, <2>1 DEF Opened
    <3>2. t.level <= m
      BY <1>1, <3>1
    <3> QED
      BY <3>1, <3>2 DEF Met, Opened
  <2>2. CASE ~Readable(c)
    BY <2>2 DEF Met, Opened
  <2> QED
    BY <2>1, <2>2
<1> QED
  BY <1>2, <1>3, <1>4 DEF Met

\* What Digest makes of the queue, seen from one URL.
LEMMA DigestWaits ==
    ASSUME CrawlInvariant, NEW files, NEW links \in Seq(Link), DistinctUrls(links),
           Digest(files, links)
    PROVE  /\ \A c, n : Waits(c, n) => Waits(c, n)'
           /\ \A k \in 1..Len(Follow(links)) :
                 /\ task.level <= depth
                 /\ \A c, n : c = Follow(links)[k].url /\ n = task.level + 1 => Waits(c, n)'
<1>1. /\ \A i \in 1..Len(queue) : queue'[i] = queue[i] /\ i \in 1..Len(queue')
      /\ \A i \in 1..Len(Follow(links)) :
            /\ Len(queue) + i \in 1..Len(queue')
            /\ queue'[Len(queue) + i].url = Follow(links)[i].url
            /\ queue'[Len(queue) + i].level = task.level + 1
            /\ task.level <= depth
  BY DigestQueue
<1>2. ASSUME NEW c, NEW n, Waits(c, n)
      PROVE  Waits(c, n)'
  <2>1. PICK i \in 1..Len(queue) : queue[i].url = c /\ queue[i].level <= n
    BY <1>2 DEF Waits
  <2>2. i \in 1..Len(queue') /\ queue'[i].url = c /\ queue'[i].level <= n
    BY <1>1, <2>1
  <2> QED
    BY <2>2 DEF Waits
<1>3. ASSUME NEW k \in 1..Len(Follow(links))
      PROVE  task.level <= depth
             /\ \E i \in 1..Len(queue') :
                   queue'[i].url = Follow(links)[k].url /\ queue'[i].level <= task.level + 1
  <2>1. task.level + 1 <= task.level + 1
    BY TaskFields
  <2> QED
    BY <1>1, <2>1
<1> QED
  BY <1>2, <1>3 DEF Waits

\* What an answer must do for nothing to be lost.
Answered(files, links) ==
    /\ Digest(files, links) /\ step \in {"probing", "asking"}
    /\ opened \subseteq opened' /\ opened' \subseteq opened \union {task}
    /\ task.level <= depth /\ Readable(task.url) => task \in opened'
    /\ Wanted(task.url) => task.url \in Range(files)
    /\ task \in opened' /\ task \notin opened =>
        \E verb \in Verbs : Shows(task.url, verb) /\ links = Extract(task.url, verb)

LEMMA AnsweredMet ==
    ASSUME CrawlInvariant, NEW files, NEW links \in Seq(Link), DistinctUrls(links),
           Answered(files, links), NEW c, NEW n \in Nat, Met(c, n), n <= depth \/ task.level <= depth
    PROVE  Met(c, n)'
<1>1. /\ Digest(files, links) /\ opened \subseteq opened' /\ site' = site /\ pattern' = pattern
      /\ task.level <= depth /\ Readable(task.url) => task \in opened'
  BY DEF Answered, Digest, inputs
<1>0. \A u : Readable(u)' = Readable(u)
  BY <1>1, SameServer
<1>2. CASE Waits(c, n)
  <2>1. Waits(c, n)'
    BY <1>1, <1>2, DigestWaits
  <2> QED
    BY <2>1 DEF Met
<1>3. CASE Current(c, n)
  <2>1. task.url = c /\ task.level <= n /\ task.level <= depth
    BY <1>3, TaskFields DEF Current
  <2>2. Readable(c) => \E t \in opened' : t.url = c /\ t.level <= n
    BY <1>1, <2>1
  <2>3. Opened(c, n)'
    BY <1>0, <1>1, <2>2 DEF Opened
  <2> QED
    BY <2>3 DEF Met
<1>4. CASE Opened(c, n)
  <2>1. Opened(c, n)'
    BY <1>0, <1>1, <1>4 DEF Opened
  <2> QED
    BY <2>1 DEF Met
<1> QED
  BY <1>2, <1>3, <1>4 DEF Met

LEMMA AnsweredListed ==
    ASSUME CrawlInvariant, NEW files \in Seq(Urls), NEW links \in Seq(Link), DistinctUrls(links),
           Answered(files, links), NEW f, Wanted(f), Listed(f)
    PROVE  Listed(f)'
<1>1. Digest(files, links) /\ depth' = depth /\ (Wanted(task.url) => task.url \in Range(files))
  BY DEF Answered, Digest, inputs
<1>2. /\ Range(yielded) \subseteq Range(yielded')
      /\ \A x \in Range(files) : x \in pattern.name => x \in Range(yielded')
  BY <1>1, DigestLists
<1>3. CASE Waits(f, depth + 1)
  <2>1. PICK i \in 1..Len(queue) : queue[i].url = f /\ queue[i].level <= depth + 1
    BY <1>3 DEF Waits
  <2>2. i \in 1..Len(queue') /\ queue'[i] = queue[i]
    BY <1>1, DigestQueue
  <2> QED
    BY <1>1, <2>1, <2>2 DEF Listed, Waits
<1>4. CASE Current(f, depth + 1)
  <2>1. f \in Range(yielded')
    BY <1>1, <1>2, <1>4 DEF Current, Wanted
  <2> QED
    BY <2>1 DEF Listed
<1>5. CASE f \in Range(yielded)
  BY <1>2, <1>5 DEF Listed
<1> QED
  BY <1>3, <1>4, <1>5 DEF Listed

\* A link that is followed up.
LEMMA FollowedMet ==
    ASSUME CrawlInvariant, NEW files \in Seq(Urls), NEW links \in Seq(Link), DistinctUrls(links),
           Digest(files, links), NEW k \in 1..Len(Follow(links)), NEW c, c = Follow(links)[k].url
    PROVE  /\ \A n : n = task.level + 1 => Met(c, n)'
           /\ Listed(c)'
           /\ task.level <= depth
<1>1. task.level <= depth /\ \A n : n = task.level + 1 => Waits(c, n)'
  BY DigestWaits
<1>2. \A n : n = task.level + 1 => Met(c, n)'
  BY <1>1 DEF Met
<1>3. task.level \in Nat /\ depth \in Nat /\ depth' = depth
  BY TaskFields DEF Digest, inputs
<1>4. Waits(c, depth + 1)'
  <2>1. /\ Len(queue) + k \in 1..Len(queue') /\ queue'[Len(queue) + k].url = c
        /\ queue'[Len(queue) + k].level = task.level + 1
    BY DigestQueue
  <2>2. task.level + 1 <= depth + 1
    BY <1>1, <1>3
  <2> QED
    BY <1>3, <2>1, <2>2 DEF Waits
<1> QED
  BY <1>1, <1>2, <1>4 DEF Listed

\* The links of a page that is opened, one by one.
LEMMA AnsweredLink ==
    ASSUME CrawlInvariant, NothingLost, pattern.name \subseteq pattern.url,
           NEW files \in Seq(Urls), NEW links \in Seq(Link), DistinctUrls(links),
           Answered(files, links), NEW i \in 1..Len(links), NEW c, c = links[i].url
    PROVE  /\ links[i].dir # "no" /\ task.level < depth => \A n : n = task.level + 1 => Met(c, n)'
           /\ links[i].dir # "yes" /\ task.level <= depth /\ Wanted(c) => Listed(c)'
<1>1. Digest(files, links) /\ task.level \in Nat /\ depth \in Nat
  BY TaskFields DEF Answered
<1>2. links[i].dir \in {"yes", "no", "unknown"}
  <2>1. links[i] \in Link
    OBVIOUS
  <2> QED
    BY <2>1 DEF Link
<1>3. /\ task.level <= depth => \A u \in seen : Met(u, task.level + 1)
      /\ \A f \in seen : Wanted(f) => Listed(f)
  BY DEF NothingLost
<1>4. CASE c \in seen
  <2>1. ASSUME task.level < depth
        PROVE  \A n : n = task.level + 1 => Met(c, n)'
    <3> SUFFICES ASSUME NEW n, n = task.level + 1
                 PROVE  Met(c, n)'
      OBVIOUS
    <3>1. n \in Nat /\ Met(c, n) /\ task.level <= depth
      BY <1>1, <1>3, <1>4, <2>1
    <3> QED
      BY <3>1, AnsweredMet
  <2>2. Wanted(c) => Listed(c)'
    BY <1>3, <1>4, AnsweredListed
  <2> QED
    BY <2>1, <2>2
<1>5. CASE c \notin seen /\ (task.level < depth \/ task.level = depth)
  <2>1. \A j \in 1..Len(links) :
           /\ links[j].dir # "no" /\ links[j].url \notin seen
           /\ \/ task.level < depth
              \/ task.level = depth /\ links[j].dir = "unknown" /\ links[j].url \in pattern.url
           => \E k \in 1..Len(Follow(links)) : Follow(links)[k].url = links[j].url
    BY <1>1, FollowWell
  <2>2. ASSUME links[i].dir # "no", task.level < depth
        PROVE  \A n : n = task.level + 1 => Met(c, n)'
    <3>1. PICK k \in 1..Len(Follow(links)) : Follow(links)[k].url = c
      BY <1>5, <2>1, <2>2
    <3> QED
      BY <1>1, <3>1, FollowedMet
  <2>3. ASSUME links[i].dir = "unknown", Wanted(c)
        PROVE  Listed(c)'
    <3>1. c \in pattern.url
      BY <2>3 DEF Wanted
    <3>2. PICK k \in 1..Len(Follow(links)) : Follow(links)[k].url = c
      BY <1>5, <2>1, <2>3, <3>1
    <3> QED
      BY <1>1, <3>2, FollowedMet
  <2>4. ASSUME links[i].dir = "no", Wanted(c)
        PROVE  Listed(c)'
    <3>1. c \in Range(yielded')
      BY <1>1, <2>4, DigestLists DEF Wanted
    <3> QED
      BY <3>1 DEF Listed
  <2> QED
    BY <1>2, <2>2, <2>3, <2>4
<1>6. CASE task.level > depth
  BY <1>1, <1>6
<1> QED
  BY <1>1, <1>4, <1>5, <1>6

LEMMA AnsweredLosesNothing ==
    ASSUME CrawlInvariant, NothingLost, pattern.name \subseteq pattern.url,
           NEW files \in Seq(Urls), NEW links \in Seq(Link), DistinctUrls(links),
           Answered(files, links)
    PROVE  NothingLost'
<1>1. /\ Digest(files, links) /\ task' = task /\ site' = site /\ depth' = depth /\ pattern' = pattern
      /\ opened' \subseteq opened \union {task}
      /\ task \in opened' /\ task \notin opened =>
            \E verb \in Verbs : Shows(task.url, verb) /\ links = Extract(task.url, verb)
  BY DEF Answered, Digest, inputs
<1>2. task.level \in Nat /\ depth \in Nat \ {0} /\ InputsOK /\ task.url \in Urls /\ opened \subseteq Task
  BY InputFields, TaskFields DEF CrawlInvariant, CrawlTypeOK
<1>3. /\ Met(Root, 1)
      /\ task.level <= depth => \A c \in seen : Met(c, task.level + 1)
      /\ \A f \in seen : Wanted(f) => Listed(f)
      /\ \A t \in opened : t.level < depth => \A c \in LeadsTo(t.url) : Met(c, t.level + 1)
      /\ \A t \in opened : t.level <= depth /\ Readable(t.url) =>
            \A f \in Range(site[t.url].children) : Wanted(f) => Listed(f)
  BY DEF NothingLost
<1>4. seen' = seen \union {Follow(links)[k].url : k \in 1..Len(Follow(links))}
  BY <1>1, DigestLists
<1>5. Met(Root, 1)'
  BY <1>2, <1>3, AnsweredMet
<1>6. ASSUME task.level <= depth, NEW c \in seen', NEW n, n = task.level + 1
      PROVE  Met(c, n)'
  <2>1. CASE c \in seen
    <3>1. n \in Nat /\ Met(c, n)
      BY <1>2, <1>3, <1>6, <2>1
    <3> QED
      BY <1>6, <3>1, AnsweredMet
  <2>2. CASE c \notin seen
    <3>1. PICK k \in 1..Len(Follow(links)) : Follow(links)[k].url = c
      BY <1>4, <2>2
    <3> QED
      BY <1>1, <1>6, <3>1, FollowedMet
  <2> QED
    BY <2>1, <2>2
<1>7. ASSUME NEW f \in seen', Wanted(f)
      PROVE  Listed(f)'
  <2>1. CASE f \in seen
    BY <1>3, <1>7, <2>1, AnsweredListed
  <2>2. CASE f \notin seen
    <3>1. PICK k \in 1..Len(Follow(links)) : Follow(links)[k].url = f
      BY <1>4, <2>2
    <3> QED
      BY <1>1, <3>1, FollowedMet
  <2> QED
    BY <2>1, <2>2
<1>8. ASSUME NEW t \in opened', t \in opened \/ t = task
      PROVE  /\ t.level < depth => \A c \in LeadsTo(t.url) : \A n : n = t.level + 1 => Met(c, n)'
             /\ t.level <= depth /\ Readable(t.url) =>
                    \A f \in Range(site[t.url].children) : Wanted(f) => Listed(f)'
  <2>1. CASE t \in opened
    <3>1. t.level \in Nat
      BY <1>2, <2>1 DEF Task
    <3>2. ASSUME t.level < depth, NEW c \in LeadsTo(t.url), NEW n, n = t.level + 1
          PROVE  Met(c, n)'
      <4>1. Met(c, t.level + 1)
        BY <1>3, <2>1, <3>2
      <4>2. n \in Nat /\ n <= depth
        BY <1>2, <3>1, <3>2
      <4> QED
        BY <3>2, <4>1, <4>2, AnsweredMet
    <3>3. ASSUME t.level <= depth, Readable(t.url), NEW f \in Range(site[t.url].children), Wanted(f)
          PROVE  Listed(f)'
      BY <1>3, <2>1, <3>3, AnsweredListed
    <3> QED
      BY <3>2, <3>3
  <2>2. CASE t = task /\ task \notin opened
    <3>1. PICK verb \in Verbs : Shows(task.url, verb) /\ links = Extract(task.url, verb)
      BY <1>1, <2>2
    <3>2. \A c \in Range(site[task.url].children) \ {task.url} :
             \E i \in 1..Len(links) : links[i] = LinkTo(task.url, verb, c)
      <4> DEFINE found == Extract(task.url, verb)
      <4>1. \A c \in Range(site[task.url].children) \ {task.url} :
               \E i \in 1..Len(found) : found[i] = LinkTo(task.url, verb, c)
        BY <1>2, <3>1, ExtractWell
      <4>2. found = links
        BY <3>1
      <4> HIDE DEF found
      <4> QED
        BY <4>1, <4>2
    <3>3. ASSUME task.level < depth, NEW c \in LeadsTo(task.url), NEW n, n = task.level + 1
          PROVE  Met(c, n)'
      <4>1. /\ c \in Range(site[task.url].children) \ {task.url}
            /\ LinkTo(task.url, verb, c).dir # "no"
        BY <3>1, <3>3 DEF LeadsTo
      <4>2. PICK i \in 1..Len(links) : links[i] = LinkTo(task.url, verb, c)
        BY <3>2, <4>1
      <4>3. links[i].dir # "no" /\ c = links[i].url
        BY <1>2, <4>1, <4>2, LinkWell
      <4> QED
        BY <3>3, <4>3, AnsweredLink
    <3>4. ASSUME task.level <= depth, NEW f \in Range(site[task.url].children),
                 Readable(task.url), Wanted(f)
          PROVE  Listed(f)'
      <4>1. f # task.url
        BY <3>4, Answers DEF Wanted
      <4>2. PICK i \in 1..Len(links) : links[i] = LinkTo(task.url, verb, f)
        BY <3>2, <4>1
      <4>3. f = links[i].url /\ links[i].dir # "yes"
        BY <1>2, <3>4, <4>2, LinkWell DEF Wanted
      <4> QED
        BY <3>4, <4>3, AnsweredLink
    <3> QED
      BY <2>2, <3>3, <3>4
  <2> QED
    BY <1>8, <2>1, <2>2
<1>9. \A t \in opened' : t \in opened \/ t = task
  BY <1>1
<1>10. \A u : LeadsTo(u)' = LeadsTo(u) /\ Readable(u)' = Readable(u) /\ Wanted(u)' = Wanted(u)
  BY <1>1, SameServer
<1> QED
  BY <1>1, <1>5, <1>6, <1>7, <1>8, <1>9, <1>10 DEF NothingLost

LEMMA TakeTaskLosesNothing ==
    ASSUME CrawlInvariant, NothingLost, TakeTask
    PROVE  NothingLost'
<1>1. /\ queue \in Seq(Task) /\ queue # <<>> /\ step = "idle"
      /\ task' = Head(queue) /\ queue' = Tail(queue) /\ step' \in {"probing", "asking"}
      /\ site' = site /\ depth' = depth /\ pattern' = pattern /\ seen' = seen
      /\ yielded' = yielded /\ opened' = opened
  BY DEF CrawlInvariant, CrawlTypeOK, TakeTask, inputs
<1>2. /\ task' = queue[1] /\ 1 \in 1..Len(queue) /\ Len(queue) \in Nat
      /\ Len(queue') = Len(queue) - 1 /\ Len(queue') \in Nat
      /\ \A i \in 1..Len(queue') : queue'[i] = queue[i + 1]
  BY <1>1, FirstAndRest
<1>3. /\ task.level \in Nat /\ depth \in Nat /\ task'.level \in Nat
      /\ task.level <= task'.level
  <2>1. queue[1].level \in {task.level, task.level + 1}
    BY <1>2 DEF CrawlInvariant, Levels
  <2> QED
    BY <1>2, <2>1, TaskFields
<1>4. ASSUME NEW c, NEW n, Waits(c, n)
      PROVE  Waits(c, n)' \/ Current(c, n)'
  <2>1. PICK i \in 1..Len(queue) : queue[i].url = c /\ queue[i].level <= n
    BY <1>4 DEF Waits
  <2>2. CASE i = 1
    BY <1>1, <1>2, <2>1, <2>2 DEF Current
  <2>3. CASE i # 1
    <3> DEFINE j == i - 1
    <3>1. j \in 1..Len(queue') /\ j + 1 = i
      BY <1>2, <2>3
    <3> HIDE DEF j
    <3>2. queue'[j] = queue[i]
      BY <1>2, <3>1
    <3> QED
      BY <2>1, <3>1, <3>2 DEF Waits
  <2> QED
    BY <2>2, <2>3
<1>5. \A c, n : ~Current(c, n)
  BY <1>1 DEF Current
<1>6. \A c, n : Opened(c, n) => Opened(c, n)'
  BY <1>1, SameServer DEF Opened
<1>7. \A c, n : Met(c, n) => Met(c, n)'
  BY <1>4, <1>5, <1>6 DEF Met
<1>8. ASSUME NEW f, Listed(f)
      PROVE  Listed(f)'
  <2>1. CASE Waits(f, depth + 1)
    <3>1. \A n : n = depth + 1 => Waits(f, n)' \/ Current(f, n)'
      BY <1>4, <2>1
    <3>2. Waits(f, depth + 1)' \/ Current(f, depth + 1)'
      BY <1>1, <3>1 DEF Waits, Current
    <3> QED
      BY <3>2 DEF Listed
  <2>2. CASE f \in Range(yielded)
    BY <1>1, <2>2 DEF Listed
  <2> QED
    BY <1>5, <1>8, <2>1, <2>2 DEF Listed
<1>9. ASSUME task'.level <= depth, NEW c \in seen, NEW n, n = task'.level + 1
      PROVE  Met(c, n)'
  <2>1. task.level <= depth /\ task.level + 1 \in Nat /\ n \in Nat /\ task.level + 1 <= n
    BY <1>3, <1>9
  <2>2. Met(c, task.level + 1)
    BY <1>9, <2>1 DEF NothingLost
  <2>3. Met(c, n)
    BY <2>1, <2>2, MetLater
  <2> QED
    BY <1>7, <2>3
<1>10. \A u : LeadsTo(u)' = LeadsTo(u) /\ Readable(u)' = Readable(u) /\ Wanted(u)' = Wanted(u)
  BY <1>1, SameServer
<1>11. /\ Met(Root, 1)
       /\ \A f \in seen : Wanted(f) => Listed(f)
       /\ \A t \in opened : t.level < depth => \A c \in LeadsTo(t.url) : Met(c, t.level + 1)
       /\ \A t \in opened : t.level <= depth /\ Readable(t.url) =>
             \A f \in Range(site[t.url].children) : Wanted(f) => Listed(f)
  BY DEF NothingLost
<1>12. /\ Met(Root, 1)'
       /\ \A t \in opened : t.level < depth => \A c \in LeadsTo(t.url) : Met(c, t.level + 1)'
  BY <1>7, <1>11
<1> QED
  BY <1>1, <1>8, <1>9, <1>10, <1>11, <1>12 DEF NothingLost

\* A step that neither takes a task nor answers one.
LEMMA OthersLoseNothing ==
    ASSUME NothingLost, UNCHANGED <<inputs, queue, seen, task, yielded, opened>>,
           step \in {"probing", "asking"} => step' \in {"probing", "asking"}
    PROVE  NothingLost'
<1>1. /\ queue' = queue /\ seen' = seen /\ task' = task /\ yielded' = yielded /\ opened' = opened
      /\ site' = site /\ depth' = depth /\ pattern' = pattern
  BY DEF inputs
<1>2. \A c, n : Met(c, n) => Met(c, n)'
  BY <1>1, SameServer DEF Met, Waits, Current, Opened
<1>3. \A f : Listed(f) => Listed(f)'
  BY <1>1 DEF Listed, Waits, Current
<1>4. \A u : LeadsTo(u)' = LeadsTo(u) /\ Readable(u)' = Readable(u) /\ Wanted(u)' = Wanted(u)
  BY <1>1, SameServer
<1>5. /\ Met(Root, 1)'
      /\ task.level <= depth => \A c \in seen : \A n : n = task.level + 1 => Met(c, n)'
      /\ \A f \in seen : Wanted(f) => Listed(f)'
      /\ \A t \in opened : t.level < depth => \A c \in LeadsTo(t.url) : Met(c, t.level + 1)'
      /\ \A t \in opened : t.level <= depth /\ Readable(t.url) =>
            \A f \in Range(site[t.url].children) : Wanted(f) => Listed(f)'
  BY <1>2, <1>3 DEF NothingLost
<1> QED
  BY <1>1, <1>4, <1>5 DEF NothingLost

LEMMA StepLosesNothing ==
    ASSUME CrawlInvariant, NothingLost, Telling, [Next]_vars
    PROVE  NothingLost'
<1>1. pattern.name \subseteq pattern.url
  BY DEF Telling
<1>2. /\ step \in {"probing", "asking"} /\ only => task.level > depth
      /\ <<task.url>> \in Seq(Urls) /\ task.url \in Range(<<task.url>>)
      /\ <<>> \in Seq(Urls) /\ <<>> \in Seq(Link) /\ DistinctUrls(<<>>)
  <2>1. step \in {"probing", "asking"} /\ only => task.only
    BY DEF CrawlInvariant, Phase
  <2>2. step \in {"probing", "asking"} /\ only => task.level > depth
    BY <2>1, TaskFields
  <2>3. <<task.url>> \in Seq(Urls) /\ task.url \in Range(<<task.url>>)
    BY TaskFields DEF Range
  <2> QED
    BY <2>2, <2>3, NoLinks
<1>3. CASE TakeTask
  BY <1>3, TakeTaskLosesNothing
<1>4. ASSUME NEW verb, NEW again, NEW filesOnly, AskWith(verb, again, filesOnly)
      PROVE  NothingLost'
  BY <1>4, OthersLoseNothing DEF AskWith
<1>5. CASE ProbeFile
  <2>1. Digest(<<task.url>>, <<>>) /\ opened' = opened /\ step = "probing" /\ ~SpeaksDav /\ TypedAsFile
    BY <1>5 DEF ProbeFile
  <2>2. Readable(task.url) => only
    <3>1. Readable(task.url) => site[task.url].options \in {"dav", "allow"}
      <4>1. site[task.url].options \in {"dav", "allow", "none", "fails"}
        BY InputFields, TaskFields DEF CrawlInvariant
      <4> QED
        BY <2>1, <4>1 DEF Readable, TypedAsFile, Probed
    <3> QED
      BY <2>1, <3>1 DEF SpeaksDav, Probed
  <2>3. ~(task.level <= depth /\ Readable(task.url))
    BY <1>2, <2>1, <2>2, TaskFields
  <2>4. Answered(<<task.url>>, <<>>)
    BY <1>2, <2>1, <2>3 DEF Answered
  <2> QED
    BY <1>1, <1>2, <2>4, AnsweredLosesNothing
<1>6. CASE ProbeNothing
  <2>1. CASE only
    <3>1. Digest(<<>>, <<>>) /\ step = "probing" /\ opened' = opened /\ ~TypedAsFile
      BY <1>6, <2>1 DEF ProbeNothing
    <3>2. ~Wanted(task.url)
      BY <3>1 DEF Wanted, Recognisable, TypedAsFile, Probed
    <3>3. ~(task.level <= depth)
      BY <1>2, <2>1, <3>1, TaskFields
    <3>4. Answered(<<>>, <<>>)
      BY <3>1, <3>2, <3>3 DEF Answered
    <3> QED
      BY <1>1, <1>2, <3>4, AnsweredLosesNothing
  <2>2. CASE ~only
    BY <1>4, <1>6, <2>2 DEF ProbeNothing
  <2> QED
    BY <2>1, <2>2
<1>7. CASE AskForFile
  <2> DEFINE files == IF LooksLikeFile THEN <<task.url>> ELSE <<>>
  <2>1. Digest(files, <<>>) /\ step = "asking" /\ only /\ opened' = opened
    BY <1>7 DEF AskForFile
  <2>2. Wanted(task.url) => task.url \in Range(files)
    <3>1. method \in Verbs /\ (method = "PROPFIND" => site[task.url].collection)
      BY <2>1 DEF CrawlInvariant, Phase, Hints, HintOK
    <3>2. Wanted(task.url) => method = "GET"
      BY <3>1 DEF Verbs, Wanted, Recognisable
    <3>3. Wanted(task.url) => LooksLikeFile
      BY <3>2 DEF Wanted, Recognisable, Answer, LooksLikeFile
    <3> QED
      BY <1>2, <3>3
  <2>3. files \in Seq(Urls)
    BY <1>2
  <2>4. ~(task.level <= depth)
    BY <1>2, <2>1, TaskFields
  <2> HIDE DEF files
  <2>5. Answered(files, <<>>)
    BY <2>1, <2>2, <2>4 DEF Answered
  <2> QED
    BY <1>1, <1>2, <2>3, <2>5, AnsweredLosesNothing
<1>8. CASE Classify
  <2> DEFINE u == task.url
  <2>1. /\ Digest(ClassifiedFiles, ClassifiedLinks) /\ step = "asking" /\ ~only
        /\ retry \/ ~Elsewhere(u, method)
        /\ opened' = IF Shows(u, method) THEN opened \union {task} ELSE opened
    BY <1>8 DEF Classify, ClassifiedFiles, ClassifiedLinks
  <2>2. /\ method \in Verbs
        /\ IF retry THEN AskedFirst(u, Other(method)) /\ Elsewhere(u, Other(method))
           ELSE AskedFirst(u, method)
    BY <2>1 DEF CrawlInvariant, Phase
  <2>3. Readable(u) => Shows(u, method)
    BY <2>1, <2>2, Answers DEF Readable
  <2>4. Wanted(u) => u \in Range(ClassifiedFiles)
    <3>1. Wanted(u) => IsFile(u, method)
      BY <2>1, <2>2 DEF Wanted, Recognisable, IsFile, AskedFirst, Elsewhere, Other, Verbs
    <3> QED
      BY <1>2, <3>1 DEF ClassifiedFiles
  <2>5. Answered(ClassifiedFiles, ClassifiedLinks)
    BY <2>1, <2>2, <2>3, <2>4 DEF Answered, ClassifiedLinks
  <2> QED
    BY <1>1, <2>2, <2>5, Classified, AnsweredLosesNothing
<1>9. CASE EndCrawl
  BY <1>9, OthersLoseNothing DEF EndCrawl
<1>10. CASE UNCHANGED vars
  BY <1>10, OthersLoseNothing DEF vars
<1> QED
  BY <1>3, <1>4, <1>5, <1>6, <1>7, <1>8, <1>9, <1>10 DEF Next, ProbeDav, Upgrade, FallBack

LEMMA ListingGoesOn == Spec => []ListingInvariant
<1>1. Init => ListingInvariant
  <2> SUFFICES ASSUME Init
               PROVE  NothingLost
    BY DEF ListingInvariant
  <2>1. CrawlInvariant /\ queue \in Seq(Task) /\ task.level = 1 /\ task.url = Root
    BY CrawlBegins DEF Init, CrawlInvariant, CrawlTypeOK
  <2>2. queue = <<task>> /\ seen = {Root} /\ opened = {} /\ depth \in Nat \ {0}
    BY <2>1, InputFields DEF Init, CrawlInvariant
  <2>3. Len(queue) = 1 /\ queue[1].url = Root /\ queue[1].level = 1
    BY <2>1, <2>2
  <2>4. Waits(Root, 1) /\ Waits(Root, 2) /\ Waits(Root, depth + 1)
    BY <2>2, <2>3 DEF Waits
  <2> QED
    BY <2>1, <2>2, <2>4 DEF NothingLost, Met, Listed
<1>2. CrawlInvariant /\ ListingInvariant /\ [Next]_vars => ListingInvariant'
  <2> SUFFICES ASSUME CrawlInvariant, ListingInvariant, [Next]_vars, Telling'
               PROVE  NothingLost'
    BY DEF ListingInvariant
  <2>1. site' = site /\ pattern' = pattern
    BY DEF Next, TakeTask, ProbeDav, ProbeFile, ProbeNothing, AskForFile, Upgrade, FallBack, Classify,
           EndCrawl, AskWith, Digest, inputs, vars
  <2>2. Telling
    BY <2>1 DEF Telling
  <2> QED
    BY <2>2, StepLosesNothing DEF ListingInvariant
<1> QED
  BY <1>1, <1>2, CrawlGoesOn, PTL DEF Spec

-----------------------------------------------------------------------------
(* A crawl that ended lists everything within its depth.                   *)

\* The turns of Near, up to turn m of them.
Nearer(m, near) ==
    near = [k \in 1..m |->
              IF k = 1 THEN {Root} ELSE near[k - 1] \union UNION {LeadsTo(u) : u \in near[k - 1]}]

LEMMA NearerExists ==
    ASSUME NEW m \in Nat \ {0}
    PROVE  \E near : Nearer(m, near)
<1> DEFINE Missing == {n \in Nat \ {0} : ~\E near : Nearer(n, near)}
<1>1. SUFFICES ASSUME Missing # {}
               PROVE  FALSE
  OBVIOUS
<1>2. PICK n \in Missing : \A k \in Missing : n <= k
  <2>1. Missing \subseteq Nat
    OBVIOUS
  <2> HIDE DEF Missing
  <2> QED
    BY <1>1, <2>1, LeastElement
<1>3. n \in Nat \ {0} /\ ~\E near : Nearer(n, near)
  OBVIOUS
<1>4. CASE n = 1
  <2> DEFINE g == [k \in 1..1 |-> {Root}]
  <2>1. g = [k \in 1..1 |->
              IF k = 1 THEN {Root} ELSE g[k - 1] \union UNION {LeadsTo(u) : u \in g[k - 1]}]
    OBVIOUS
  <2>2. Nearer(1, g)
    BY <2>1 DEF Nearer
  <2> QED
    BY <1>3, <1>4, <2>2
<1>5. CASE n # 1
  <2>1. n - 1 \in Nat \ {0} /\ ~(n <= n - 1)
    BY <1>3, <1>5
  <2>2. n - 1 \notin Missing
    <3> HIDE DEF Missing
    <3> QED
      BY <1>2, <2>1
  <2>3. PICK f : Nearer(n - 1, f)
    BY <2>1, <2>2
  <2> DEFINE more(s) == s \union UNION {LeadsTo(u) : u \in s}
             g == [k \in 1..n |-> IF k = n THEN more(f[n - 1]) ELSE f[k]]
             h == [k \in 1..n |-> IF k = 1 THEN {Root} ELSE more(g[k - 1])]
  <2>4. f = [k \in 1..n - 1 |-> IF k = 1 THEN {Root} ELSE more(f[k - 1])]
    BY <2>3 DEF Nearer
  <2> HIDE DEF more
  <2>5. ASSUME NEW k \in 1..n
        PROVE  g[k] = h[k]
    <3>1. CASE k = n
      <4>1. n - 1 \in 1..n /\ n - 1 # n /\ n \in 1..n
        BY <1>3, <1>5
      <4>2. g[n - 1] = f[n - 1]
        BY <4>1
      <4> QED
        BY <1>5, <3>1, <4>1, <4>2
    <3>2. CASE k # n
      <4>1. k \in 1..n - 1
        BY <1>3, <3>2
      <4>2. f[k] = IF k = 1 THEN {Root} ELSE more(f[k - 1])
        BY <2>4, <4>1
      <4>3. k # 1 => k - 1 \in 1..n /\ k - 1 # n
        BY <1>3, <4>1
      <4>4. g[k] = f[k] /\ (k # 1 => g[k - 1] = f[k - 1])
        BY <3>2, <4>3
      <4> QED
        BY <4>2, <4>4
    <3> QED
      BY <3>1, <3>2
  <2>6. g = h
    <3>1. DOMAIN g = 1..n /\ DOMAIN h = 1..n /\ g = [k \in 1..n |-> g[k]] /\ h = [k \in 1..n |-> h[k]]
      OBVIOUS
    <3> HIDE DEF g, h
    <3> QED
      BY <2>5, <3>1
  <2>7. Nearer(n, g)
    <3>1. g = [k \in 1..n |-> IF k = 1 THEN {Root} ELSE more(g[k - 1])]
      BY <2>6
    <3> HIDE DEF g
    <3> QED
      BY <3>1 DEF Nearer, more
  <2> QED
    BY <1>3, <2>7
<1> QED
  BY <1>4, <1>5

LEMMA NearIsNearer ==
    ASSUME depth \in Nat \ {0}
    PROVE  \E near : Nearer(depth, near) /\ Near = near[depth]
<1> DEFINE n == CHOOSE near :
              near = [k \in 1..depth |->
                  IF k = 1 THEN {Root} ELSE near[k - 1] \union UNION {LeadsTo(u) : u \in near[k - 1]}]
<1>1. Nearer(depth, n)
  <2>1. \E near : Nearer(depth, near)
    BY NearerExists
  <2> QED
    BY <2>1, Zenon DEF Nearer
<1>2. Near = n[depth]
  BY Zenon DEF Near
<1> HIDE DEF n
<1> QED
  BY <1>1, <1>2, Zenon

\* Once nothing waits, every page or folder near the root was opened within
\* the depth: by induction over the links that lead to it.
LEMMA NearIsOpened ==
    ASSUME CrawlInvariant, NothingLost, step = "done", queue = <<>>, NEW u \in Near, Readable(u)
    PROVE  \E t \in opened : t.url = u /\ t.level <= depth
<1>1. depth \in Nat \ {0} /\ opened \subseteq Task
  BY InputFields DEF CrawlInvariant, CrawlTypeOK
<1>2. PICK near : Nearer(depth, near) /\ Near = near[depth]
  BY <1>1, NearIsNearer
<1> DEFINE Bad == {k \in 1..depth : \E v \in near[k] : ~Opened(v, k)}
<1>3. \A c, n : Met(c, n) => Opened(c, n)
  BY DEF Met, Waits, Current
<1>4. Bad = {}
  <2> SUFFICES ASSUME Bad # {}
               PROVE  FALSE
    OBVIOUS
  <2>1. PICK k \in Bad : \A j \in Bad : k <= j
    <3>1. Bad \subseteq Nat
      BY <1>1
    <3> HIDE DEF Bad
    <3> QED
      BY <3>1, LeastElement
  <2>2. PICK v \in near[k] : ~Opened(v, k)
    OBVIOUS
  <2>3. k \in 1..depth
    OBVIOUS
  <2>4. near[k] = IF k = 1 THEN {Root} ELSE near[k - 1] \union UNION {LeadsTo(w) : w \in near[k - 1]}
    BY <1>2, <2>3 DEF Nearer
  <2>5. CASE k = 1
    <3>1. v = Root /\ Met(Root, 1)
      BY <2>2, <2>4, <2>5 DEF NothingLost
    <3> QED
      BY <1>3, <2>2, <2>5, <3>1
  <2>6. CASE k # 1
    <3>1. k - 1 \in 1..depth /\ ~(k <= k - 1)
      BY <1>1, <2>3, <2>6
    <3>2. k - 1 \notin Bad
      <4> HIDE DEF Bad
      <4> QED
        BY <2>1, <3>1
    <3>3. \A w \in near[k - 1] : Opened(w, k - 1)
      BY <3>1, <3>2
    <3> HIDE DEF Bad
    <3>4. CASE v \in near[k - 1]
      <4>1. Opened(v, k - 1)
        BY <3>3, <3>4
      <4>2. \A t \in opened : t.level \in Nat
        BY <1>1 DEF Task
      <4>3. Opened(v, k)
        BY <1>1, <2>3, <4>1, <4>2 DEF Opened
      <4> QED
        BY <2>2, <4>3
    <3>5. CASE v \notin near[k - 1]
      <4>1. PICK w \in near[k - 1] : v \in LeadsTo(w)
        BY <2>2, <2>4, <2>6, <3>5
      <4>2. Readable(w)
        BY <4>1 DEF LeadsTo
      <4>3. PICK t \in opened : t.url = w /\ t.level <= k - 1
        BY <3>3, <4>1, <4>2 DEF Opened
      <4>4. t.level \in Nat
        BY <1>1 DEF Task
      <4>5. t.level < depth /\ t.level + 1 \in Nat /\ t.level + 1 <= k /\ k \in Nat
        BY <1>1, <2>3, <4>3, <4>4
      <4>6. Met(v, t.level + 1)
        BY <4>1, <4>3, <4>5 DEF NothingLost
      <4>7. Met(v, k)
        BY <4>5, <4>6, MetLater
      <4> QED
        BY <1>3, <2>2, <4>7
    <3> QED
      BY <3>4, <3>5
  <2> QED
    BY <2>5, <2>6
<1>5. Opened(u, depth)
  <2>1. depth \in 1..depth
    BY <1>1
  <2> QED
    BY <1>2, <1>4, <2>1
<1> QED
  BY <1>5 DEF Opened

\* The crawl misses no file it can tell for one: the queue is breadth-first, so
\* that whoever meets a page first meets it within the depth, and no answer drops
\* a link that leads on.
THEOREM EverythingIsListed == Spec => []ListsEverything
<1>1. Init => (step = "done" => queue = <<>>)
  BY DEF Init
<1>2. (step = "done" => queue = <<>>) /\ [Next]_vars => (step = "done" => queue = <<>>)'
  BY DEF Next, TakeTask, ProbeDav, ProbeFile, ProbeNothing, AskForFile, Upgrade, FallBack, Classify,
         EndCrawl, AskWith, Digest, vars
<1>3. Spec => [](step = "done" => queue = <<>>)
  BY <1>1, <1>2, PTL DEF Spec
<1>4. CrawlInvariant /\ ListingInvariant /\ (step = "done" => queue = <<>>) => ListsEverything
  <2> SUFFICES ASSUME CrawlInvariant, NothingLost, step = "done", queue = <<>>,
                      NEW u \in Near, Readable(u),
                      NEW f \in Range(site[u].children), Wanted(f)
               PROVE  f \in Range(yielded)
    BY DEF ListsEverything, ListingInvariant, Telling, Wanted
  <2>1. PICK t \in opened : t.url = u /\ t.level <= depth
    BY NearIsOpened
  <2>2. Listed(f)
    BY <2>1 DEF NothingLost
  <2> QED
    BY <2>2 DEF Listed, Waits, Current
<1> QED
  BY <1>3, <1>4, CrawlGoesOn, ListingGoesOn, PTL

-----------------------------------------------------------------------------
(* The crawl ends.                                                         *)

Untaken == Urls \ Range(taken)

LEMMA UntakenCount ==
    ASSUME IsFiniteSet(Urls)
    PROVE  IsFiniteSet(Untaken) /\ Cardinality(Untaken) \in Nat
<1>1. IsFiniteSet(Untaken)
  BY FS_Subset DEF Untaken
<1> QED
  BY <1>1, FS_CardinalityType

\* A task that is taken from the queue is of a URL that was not taken before.
LEMMA OneTakenMore ==
    ASSUME IsFiniteSet(Urls), CrawlInvariant, TakeTask
    PROVE  Cardinality(Untaken') = Cardinality(Untaken) - 1
<1> DEFINE u == queue[1].url
<1>1. /\ queue \in Seq(Task) /\ queue # <<>> /\ taken \in Seq(Urls) /\ seen \subseteq Urls
      /\ taken' = Append(taken, Head(queue).url)
  BY DEF CrawlInvariant, CrawlTypeOK, TakeTask
<1>2. 1 \in 1..Len(queue) /\ Head(queue) = queue[1] /\ Len(taken) \in Nat
  BY <1>1, FirstAndRest
<1>3. u \in Urls /\ \A k \in 1..Len(taken) : taken[k] # u
  BY <1>1, <1>2 DEF CrawlInvariant, TakenOnce
<1>4. /\ taken' \in Seq(Urls) /\ Len(taken') = Len(taken) + 1
      /\ \A i \in 1..Len(taken) : taken'[i] = taken[i]
      /\ taken'[Len(taken) + 1] = u
  BY <1>1, <1>2, <1>3, OneMore
<1>5. \A k \in 1..Len(taken') : k \in 1..Len(taken) \/ k = Len(taken) + 1
  BY <1>2, <1>4
<1>6. /\ Range(taken) = {taken[i] : i \in 1..Len(taken)}
      /\ Range(taken') = {taken'[i] : i \in 1..Len(taken')}
  BY <1>1, <1>4 DEF Range
<1>7. 1..Len(taken) \subseteq 1..Len(taken') /\ Len(taken) + 1 \in 1..Len(taken')
  BY <1>2, <1>4
<1> HIDE DEF u
<1>8. Range(taken') = Range(taken) \union {u}
  BY <1>4, <1>5, <1>6, <1>7
<1>9. u \in Untaken /\ Untaken' = Untaken \ {u}
  <2>1. u \notin Range(taken)
    BY <1>3, <1>6
  <2> QED
    BY <1>3, <1>8, <2>1 DEF Untaken
<1> QED
  BY <1>9, UntakenCount, FS_RemoveElement

\* The other steps go on with the task that was taken.
LEMMA OthersAdvance ==
    ASSUME Next, ~TakeTask
    PROVE  /\ taken' = taken
           /\ \/ step = "probing" /\ step' = "asking" /\ retry' = FALSE
              \/ step = "asking" /\ ~retry /\ step' = "asking" /\ retry' = TRUE
              \/ step \in {"probing", "asking"} /\ step' = "idle"
              \/ step = "idle" /\ step' = "done"
<1>1. CASE ProbeDav
  BY <1>1 DEF ProbeDav, AskWith
<1>2. CASE ProbeNothing
  <2>1. CASE only
    BY <1>2, <2>1 DEF ProbeNothing, Digest
  <2>2. CASE ~only
    BY <1>2, <2>2 DEF ProbeNothing, AskWith
  <2> QED
    BY <2>1, <2>2
<1>3. CASE ProbeFile
  BY <1>3 DEF ProbeFile, Digest
<1>4. CASE AskForFile
  BY <1>4 DEF AskForFile, Digest
<1>5. CASE Classify
  BY <1>5 DEF Classify, Digest
<1>6. CASE Upgrade \/ FallBack
  BY <1>6 DEF Upgrade, FallBack, AskWith
<1>7. CASE EndCrawl
  BY <1>7 DEF EndCrawl
<1> QED
  BY <1>1, <1>2, <1>3, <1>4, <1>5, <1>6, <1>7 DEF Next

\* Of a site with finitely many URLs every crawl takes at most five steps for
\* each of them (OPTIONS, a request, a second one in the other method, and the
\* turns of the loop between them): it follows no cycle of links and does not
\* ask for the same thing again and again.
THEOREM CrawlRunsOut ==
    ASSUME IsFiniteSet(Urls)
    PROVE  Spec => CrawlAdvances
<1>1. ASSUME CrawlInvariant, CrawlInvariant', Next
      PROVE  StepsLeft' \in 0..(StepsLeft - 1)
  <2>1. /\ step \in {"idle", "probing", "asking", "done"} /\ retry \in BOOLEAN
        /\ step' \in {"idle", "probing", "asking", "done"} /\ retry' \in BOOLEAN
    BY <1>1 DEF CrawlInvariant, CrawlTypeOK
  <2>2. /\ Cardinality(Untaken) \in Nat /\ Cardinality(Untaken') \in Nat
    <3>1. \A S \in SUBSET Urls : Cardinality(S) \in Nat
      BY FS_Subset, FS_CardinalityType
    <3> QED
      BY <3>1 DEF Untaken
  <2>3. CASE TakeTask
    <3>1. Cardinality(Untaken') = Cardinality(Untaken) - 1
      BY <1>1, <2>3, OneTakenMore
    <3>2. step = "idle" /\ step' \in {"probing", "asking"}
      BY <2>3 DEF TakeTask
    <3> QED
      BY <2>1, <2>2, <3>1, <3>2 DEF StepsLeft, Untaken
  <2>4. CASE ~TakeTask
    <3>1. Cardinality(Untaken') = Cardinality(Untaken)
      BY <1>1, <2>4, OthersAdvance DEF Untaken
    <3>2. \/ step = "probing" /\ step' = "asking" /\ retry' = FALSE
          \/ step = "asking" /\ ~retry /\ step' = "asking" /\ retry' = TRUE
          \/ step \in {"probing", "asking"} /\ step' = "idle"
          \/ step = "idle" /\ step' = "done"
      BY <1>1, <2>4, OthersAdvance
    <3> QED
      BY <2>1, <2>2, <3>1, <3>2 DEF StepsLeft, Untaken
  <2> QED
    BY <2>3, <2>4
<1>2. CrawlInvariant /\ CrawlInvariant' /\ [Next]_vars => [StepsLeft' \in 0..(StepsLeft - 1)]_vars
  BY <1>1
<1> QED
  BY <1>2, CrawlGoesOn, PTL DEF Spec, CrawlAdvances
=============================================================================
