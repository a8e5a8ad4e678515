-------------------------- MODULE MCResourceCrawl --------------------------
(* The constants of the run of ResourceCrawl. *)
EXTENDS ResourceCrawl

CONSTANTS r, a, b, f

FourUrls == {r, a, b, f}

Says(form, type) == [form |-> form, type |-> type]
Links == Says("links", "page")
Refused == Says("refused", "page")
Listing == Says("multistatus", "page")

\* What is at a URL that answers GET by get and PROPFIND by propfind; OPTIONS
\* names a page unless the node is a file.
Node(options, get, propfind, body, children) ==
    [options |-> options, type |-> "page", reply |-> [GET |-> get, PROPFIND |-> propfind],
     ext |-> "none", collection |-> FALSE, body |-> body, children |-> children, quoted |-> {}]
File(options, propfind, ext) ==
    [Node(options, Says("file", "other"), propfind, "html", <<>>) EXCEPT !.type = "other", !.ext = ext]

\* An HTML page: not a WebDAV resource, or one whose server lists it to PROPFIND
\* as well, does not know PROPFIND, or refuses it with a page of its own.
Html(cs) == {Node("none", Links, Refused, "html", c) : c \in cs}
                \union {Node("dav", Links, p, "html", c) : p \in {Listing, Refused, Links}, c \in cs}
Quoting(c) == [Node("none", Links, Refused, "html", c) EXCEPT !.quoted = Urls]
Json(c) == [Node("fails", Links, Refused, "json", c) EXCEPT !.ext = "navigable"]
\* A WebDAV folder that answers GET with WebDAV too, or with an HTML index.
Folder(options, get, c) == [Node(options, get, Listing, "html", c) EXCEPT !.collection = TRUE]

Folders(cs) == {Folder(o, Says("webdav", "page"), c) : o \in {"dav", "allow"}, c \in cs}
                \union {Folder("none", g, c) : g \in {Links, Listing}, c \in cs}
Odd == {Node("none", Says("webdav", "other"), Refused, "html", <<b>>),
        Node("allow", Says("webdav", "other"), Refused, "html", <<b>>),
        Node("fails", Says("fails", "none"), Says("fails", "none"), "html", <<>>),
        [Node("none", Links, Refused, "html", <<f>>) EXCEPT !.type = "none"]}

\* The last one is misnamed; the one before answers PROPFIND with a listing of
\* itself, as WebDAV servers do.
Files == {File("none", Refused, e) : e \in {"other", "none"}}
            \union {File("allow", Refused, "none"), File("dav", Says("links", "other"), "none"),
                    File("fails", Refused, "none"), File("dav", Listing, "none"),
                    File("none", Refused, "navigable")}

\* Pages that link to each other and to a file, as HTML, JSON or WebDAV.
SmallSites ==
    {[u \in FourUrls |-> CASE u = r -> x [] u = a -> y [] u = b -> z [] u = f -> w] :
        x \in Html({<<b, a, f, r>>}) \union {Quoting(<<a, b>>), Json(<<a, f>>)} \union Folders({<<a, b>>}),
        y \in Html({<<b, f>>}) \union {Quoting(<<r, f>>), Quoting(<<b, f>>), Json(<<b, f>>)}
                \union Folders({<<b, f, r>>}) \union Odd,
        z \in {Quoting(<<f>>), Json(<<f, r>>), Folder("none", Links, <<a, f>>)},
        w \in Files}

SomeDepths == {1, 2, 3}

\* Everything; the file alone by its name, and everything by the URL.
SomePatterns == {[url |-> FourUrls, name |-> FourUrls], [url |-> {f}, name |-> {f}]}
=============================================================================
