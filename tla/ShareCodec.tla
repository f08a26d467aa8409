------------------------------ MODULE ShareCodec ------------------------------
(***************************************************************************)
(* A share store, whose documents are Simple's: through the service or in  *)
(* the bucket itself, a document is found by the session segment of its    *)
(* slug, and listed by the attributes that were written with it.           *)
(***************************************************************************)
EXTENDS SimpleCodec

Slug(session) == [type |-> "slug", session |-> session]

ShareToCommon(log) == SimpleToCommon(Tail(log))

\* A document is put under its own id.
ShareFromCommon(meta, body) == <<Slug(meta.id)>> \o SimpleFromCommon(meta, body)

\* A document that gives no id is known by its slug.
ShareMetaOf(log) ==
  LET meta == SimpleMetaOf(Tail(log))
  IN [meta EXCEPT !.id = IF @ = NoId THEN log[1].session ELSE @]

\* The attributes a document is listed by: what it leaves out is none.
AttrsForDocument(doc) ==
  LET text == [id |-> doc.id, title |-> doc.title]
  IN [name \in {name \in {"id", "title"} : text[name] # NoId} |-> text[name]]

Listed(attrs, slug) ==
  LET Given(name, otherwise) == IF name \in DOMAIN attrs THEN attrs[name] ELSE otherwise
  IN [id |-> Given("id", slug.session), title |-> Given("title", NoId)]

\* Discovery reads the attributes and no document.
ShareScan(log) == {Listed(AttrsForDocument(log[2]), log[1])}
=============================================================================
