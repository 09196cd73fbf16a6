---------------------------- MODULE VirtualPatch ----------------------------
(***************************************************************************)
(* The virtual patches of core/src/virtual-patch: from the results of a    *)
(* scan, rules for eleven products that are to block the verified bypasses *)
(* until the application is repaired.                                      *)
(*                                                                         *)
(* A rule is reduced to what decides whether it matches a request: which   *)
(* part of the request it reads, which tokens it looks for and whether the *)
(* text is decoded and folded first.  The wording of a rule is left out,   *)
(* and so are the limits the products set on the size of one.              *)
(***************************************************************************)
EXTENDS Filter, FiniteSets

CONSTANTS Stored,   \* the results of the scans a report may be asked for
          Choices   \* options a report may be asked with

VARIABLES scan,    \* the results a report was asked for
          options, \* and its options
          report   \* VirtualPatchReport, empty before the first

vars == <<scan, options, report>>

PatchVendors == {"cloudflare", "aws", "modsecurity", "nginx", "gcp", "azure",
            "haproxy", "caddy", "apache", "envoy", "k8s"}

\* Forms of a payload: a word, which no URL encodes; text that is encoded, without
\* and with blanks; text with a line break or a sign that the rules' languages give
\* a meaning, without and with blanks; only blanks; a path that begins with a dot;
\* and files at the root: by extension (0 is .env), .env with more behind it, .git
\* itself or with more behind it (.gitignore), a file of the .git directory, any other
\* name.
FileForms    == {"ext", "hidden", "vcs", "vcsdir", "name"}
Odd          == {"odd", "oddphrase"}
PayloadForms == {"word", "text", "phrase", "blank", "dots"} \cup Odd \cup FileForms

\* nr tells the payloads of a form apart, caps: it has capitals; altered: what was
\* sent is not what was recorded, but a variant for the WAF that was detected
\* (check.ts:186), a body after a template, padding or a URL with {PAYLOAD}.
Result == [cat : STRING, method : {"GET", "POST"}, form : PayloadForms, nr : Nat,
           caps : BOOLEAN, altered : BOOLEAN, status : {"200", "403", "404"}]
Choice == [vendor : PatchVendors \cup {"all", "coraza"}, tier : {"strict", "heuristic", "both"},
           grouped : BOOLEAN, scoped : BOOLEAN, misses : BOOLEAN]

-----------------------------------------------------------------------------
(* What was sent: payloads.ts gives the categories, sendRequest the place. *)

HeaderType == {"Web Cache Poisoning", "IP Bypass", "User-Agent", "JWT Attack (Header)",
               "HTTP Header Injection - Advanced"}
FileType   == {"Sensitive Files"}
Paths      == FileForms \cup {"dots"}

\* A scan has any number of results, and a payload of a file check is a path.
Inputs ==
  /\ Stored \subseteq Seq(Result)
  /\ Choices \subseteq Choice
  /\ \A rs \in Stored : \A i \in DOMAIN rs : rs[i].cat \in FileType => rs[i].form \in Paths

\* The part of the request that carried the payload.
Where(r) ==
  IF r.cat \in HeaderType THEN "header"
  ELSE IF r.cat \in FileType THEN "path"
  ELSE IF r.method = "POST" THEN "body" ELSE "query"

-----------------------------------------------------------------------------
(* heuristics.ts                                                           *)

\* defaultLocation in CATEGORY_HEURISTICS; other categories have no entry.
DefaultHeader == {"JWT Attack (Header)", "User-Agent", "IP Bypass",
                  "HTTP Request Smuggling", "Web Cache Poisoning"}
DefaultBody   == {"XXE", "GraphQL Injection", "Prototype Pollution (JSON Body)",
                  "WAF Inspection Limit Bypass (Padding)"}
DefaultUri    == {"Path Traversal", "Sensitive Files"}
DefaultQuery  == {"SQL Injection", "XSS", "Command Injection", "Local File Inclusion", "SSRF",
                  "SSTI", "NoSQL Injection", "JWT Attack (Param)",
                  "Prototype Pollution (URL/Param)", "LDAP Injection", "CRLF Injection",
                  "HTTP Parameter Pollution", "UTF8/Unicode Bypass", "Open Redirect"}
Heuristics    == DefaultHeader \cup DefaultBody \cup DefaultUri \cup DefaultQuery

\* The names that contain "Header".
HeaderNamed == {"JWT Attack (Header)", "HTTP Header Injection - Advanced"}

\* A label is a category, or a category with a number behind it, which is no
\* longer equal to its name but still contains its words.
Is(label, cat) == label.cat = cat /\ ~label.numbered

\* detectInspectionLocation
Location(label, method) ==
  LET in(cats) == ~label.numbered /\ label.cat \in cats IN
  IF label.cat \in HeaderNamed \/ in({"User-Agent", "IP Bypass"}) THEN "header"
  ELSE IF label.cat = "Prototype Pollution (JSON Body)" \/ in({"XXE", "GraphQL Injection"})
    THEN "body"
  ELSE IF in({"Path Traversal", "Sensitive Files"}) THEN "uri"
  ELSE IF method = "POST" THEN "body"
  ELSE IF in(DefaultHeader) THEN "header"
  ELSE IF in(DefaultBody) THEN "body" ELSE "query"

\* sanitizeStrictToken: a file is reduced to its extension or to the name of its
\* hidden directory, in lower case, for a label that still is one of two categories.
Reduced(label)        == ~label.numbered /\ label.cat \in DefaultUri
Tok(text, nr, caps)   == [text |-> text, nr |-> nr, caps |-> caps]
Token(label, r) ==
  CASE r.form = "blank" -> Tok("", 0, FALSE)
    [] Reduced(label) /\ r.form = "ext"    -> Tok("ext", r.nr, FALSE)
    [] Reduced(label) /\ r.form = "hidden" -> Tok("ext", 0, FALSE)
    [] Reduced(label) /\ r.form \in {"vcs", "vcsdir"} -> Tok("vcs", r.nr, FALSE)
    [] OTHER -> Tok(r.form, r.nr, r.caps)

\* A strict token that begins with a dot and is not a version control directory.
IsVcs(t) == t.text = "vcs"
IsExt(t) == t.text \in {"ext", "dots", "hidden", "vcsdir"}

\* nginx.ts and k8s.ts take no token with a slash behind a dot for an extension.
WithoutSlash(ts) == {t \in ts : t.text # "dots"}

-----------------------------------------------------------------------------
(* Parts of a rule.                                                        *)

\* A condition reads one part of the request.  op says where in it the token
\* must stand; fold: "field" lowers the text but not the token; decodes: what is
\* undone before, percent encoding and the plus for a blank.
Cond(reads, op, tokens, fold, decodes) ==
  [reads |-> reads, op |-> op, tokens |-> tokens, fold |-> fold, decodes |-> decodes]

\* alts: alternatives, each a set of conditions that must all hold.
Patch(vendor, tier, g, alts, scoped, ids) ==
  [vendor |-> vendor, tier |-> tier, label |-> g.label, alts |-> alts,
   scoped |-> scoped, ids |-> ids]

\* Azure and AWS refuse a rule without conditions; the others get an empty one.
RefuseEmpty == {"aws", "azure"}

\* The patches of one group.
Emit(vendor, g, o, alts, scoped, strictIds, heuristicIds) ==
  (IF o.tier # "heuristic" /\ (vendor \in RefuseEmpty => alts # {})
     THEN <<Patch(vendor, "strict", g, alts, scoped, strictIds)>> ELSE << >>)
  \o (IF o.tier # "strict"
        THEN <<Patch(vendor, "heuristic", g, {}, scoped, heuristicIds)>> ELSE << >>)

Tokens(g)   == {Token(g.label, r) : r \in g.items}
NonEmpty(g) == {t \in Tokens(g) : t.text # ""}
Loc(g)      == Location(g.label, g.first.method)

\* The header a rule reads: User-Agent, Authorization for JWT, else the last one.
HeaderOf(g, otherwise) ==
  IF Is(g.label, "User-Agent") THEN "user-agent"
  ELSE IF g.label.cat \in {"JWT Attack (Header)", "JWT Attack (Param)"} THEN "authorization"
  ELSE otherwise

\* The strict tokens of a path, split by what they are: ends, below, name.
Split(ts) == [ext |-> {t \in ts : IsExt(t)}, vcs |-> {t \in ts : IsVcs(t)},
              name |-> {t \in ts : ~IsExt(t) /\ ~IsVcs(t)}]

\* Everything is compared without case; all but the pattern for .git is; nothing is.
NoCase     == [ext |-> "both", vcs |-> "both", name |-> "both"]
CaseForVcs == [ext |-> "both", vcs |-> "none", name |-> "both"]
Case       == [ext |-> "none", vcs |-> "none", name |-> "none"]

\* One condition for each kind of token that occurs.
ByKind(s, vcsOp, nameOp, fold) ==
     (IF s.ext  = {} THEN {} ELSE {Cond("path", "ends", s.ext, fold.ext, {})})
  \cup (IF s.vcs  = {} THEN {} ELSE {Cond("path", vcsOp, s.vcs, fold.vcs, {})})
  \cup (IF s.name = {} THEN {} ELSE {Cond("path", nameOp, s.name, fold.name, {})})

OneCond(c) == {{c}}
AnyOf(cs)  == {{c} : c \in cs}

-----------------------------------------------------------------------------
(* generators/*.ts: the patches of group g after the patches done.         *)

Cloudflare(g, o, done) ==
  LET reads == CASE Loc(g) = "header" -> HeaderOf(g, "x-forwarded-for")
                 [] Loc(g) = "uri" -> "path" [] Loc(g) = "body" -> "body" [] OTHER -> "query"
  IN Emit("cloudflare", g, o, OneCond(Cond(reads, "in", NonEmpty(g), "both", {})),
          o.scoped, {}, {})

\* Mutant: the tokens keep their capitals under the LOWERCASE transformation.
AwsFoldFieldOnly == "field"
\* The search strings are lowered too: AWS does not transform them.
AwsFold == "both"

AwsField(g) ==
  CASE Loc(g) = "header" -> HeaderOf(g, "x-forwarded-for")
    [] Loc(g) = "uri" -> "path" [] Loc(g) = "body" -> "body" [] OTHER -> "query"

Aws(g, o, done, index) ==
  LET priority == 10 + 2 * (index - 1) IN
  Emit("aws", g, o,
       IF NonEmpty(g) = {} THEN {}
       ELSE OneCond(Cond(AwsField(g), "in", NonEmpty(g), AwsFold, {"percent"})),
       o.scoped, {priority}, {priority + 1})

\* @pm folds its words, @contains does not; the field is decoded and lowered for both.
ModSecurity(g, o, done) ==
  LET reads == CASE Loc(g) = "header" -> HeaderOf(g, "x-forwarded-for")
                 [] Loc(g) = "uri" -> "uri" [] Loc(g) = "body" -> "body" [] OTHER -> "args"
      words == Cardinality(Tokens(g)) > 1 /\ \A t \in Tokens(g) : t.text \notin {"phrase", "oddphrase"}
      used  == UNION {done[i].ids : i \in DOMAIN done}
      first == 1000000 + Cardinality(used)
      size  == IF o.tier = "heuristic" THEN 0 ELSE IF words THEN 1 ELSE Cardinality(Tokens(g))
  IN Emit("modsecurity", g, o,
          IF words THEN OneCond(Cond(reads, "in", Tokens(g), "both", {"percent", "plus"}))
          ELSE AnyOf({Cond(reads, "in", {t}, "field", {"percent", "plus"}) : t \in Tokens(g)}),
          o.scoped, first .. first + size - 1, {first + size})

\* nginx cannot read a body; a path without scope becomes location blocks.
Nginx(g, o, done) ==
  LET reads == CASE Loc(g) = "header" -> HeaderOf(g, "x-forwarded-for")
                 [] Loc(g) \in {"uri", "body"} -> "uri" [] OTHER -> "query"
      kinds == ByKind(Split(WithoutSlash(Tokens(g))), "below", "in", CaseForVcs)
  IN Emit("nginx", g, o,
          IF Loc(g) # "uri" \/ o.scoped
            THEN OneCond(Cond(reads, "in", Tokens(g), "both", {}))
          ELSE IF kinds # {} THEN AnyOf(kinds)
          ELSE OneCond(Cond("path", "in", Tokens(g), "both", {})),
          o.scoped, {}, {})

Gcp(g, o, done) ==
  LET reads == CASE Loc(g) = "header" -> HeaderOf(g, "x-forwarded-for")
                 [] Loc(g) = "uri" -> "path" [] OTHER -> "query"
      next  == 1000 + 10 * Len(done)
      own   == IF o.tier = "heuristic" THEN {} ELSE {next}
  IN Emit("gcp", g, o,
          IF Loc(g) = "uri" THEN AnyOf(ByKind(Split(NonEmpty(g)), "below", "ends", CaseForVcs))
          ELSE OneCond(Cond(reads, "in", NonEmpty(g), "both", {})),
          o.scoped, own, {next + 10 * Cardinality(own)})

\* All conditions of an Azure rule must hold; it knows no path scope, and nothing
\* in it folds the case.
Azure(g, o, done) ==
  LET reads == CASE Loc(g) = "header" ->
                      IF Is(g.label, "User-Agent") THEN "user-agent" ELSE "authorization"
                 [] Loc(g) = "body" -> "body" [] OTHER -> "query"
      conds == IF Loc(g) = "uri" THEN ByKind(Split(NonEmpty(g)), "below", "ends", Case)
               ELSE IF NonEmpty(g) = {} THEN {}
               ELSE {Cond(reads, "in", NonEmpty(g), "none", {})}
      alts  == IF conds = {} THEN {} ELSE {conds}
      next  == 100 + 10 * Len(done)
      own   == IF o.tier # "heuristic" /\ alts # {} THEN {next} ELSE {}
  IN Emit("azure", g, o, alts, FALSE, own, {next + 10 * Cardinality(own)})

\* User-Agent or Authorization, a path, else the query: HAProxy, Caddy, k8s.
SimpleField(g) ==
  CASE Loc(g) = "header" -> IF Is(g.label, "User-Agent") THEN "user-agent" ELSE "authorization"
    [] Loc(g) = "uri" -> "path"
    [] OTHER -> "query"

\* The directive of a scoped rule puts the names of ACLs into braces, where HAProxy
\* expects an anonymous ACL: it has no condition that could hold.
HAProxy(g, o, done) ==
  Emit("haproxy", g, o,
       IF o.scoped THEN {}
       ELSE IF Loc(g) = "uri" THEN AnyOf(ByKind(Split(NonEmpty(g)), "begins", "ends", NoCase))
       ELSE OneCond(Cond(SimpleField(g), "in", NonEmpty(g), "both", {})),
       o.scoped, {}, {})

\* The matchers of one kind in a Caddy matcher set are alternatives.  Its matcher of
\* the query knows no part of a value: "*=*token*" asks for a parameter named *.
Caddy(g, o, done) ==
  LET op == IF Loc(g) = "header" THEN "in" ELSE "literally"
  IN Emit("caddy", g, o,
          IF Loc(g) = "uri" THEN AnyOf(ByKind(Split(NonEmpty(g)), "inside", "ends", NoCase))
          ELSE AnyOf({Cond(SimpleField(g), op, {t}, "none", {"percent", "plus"}) : t \in NonEmpty(g)}),
          o.scoped, {}, {})

Apache(g, o, done) ==
  LET reads == CASE Loc(g) = "header" -> HeaderOf(g, "x-forwarded-for")
                 [] Loc(g) = "uri" -> "path" [] OTHER -> "query"
  IN Emit("apache", g, o, OneCond(Cond(reads, "in", NonEmpty(g), "both", {})),
          o.scoped, {}, {})

\* The pseudo-header :path carries the path and the query.
Envoy(g, o, done) ==
  LET reads == IF Loc(g) = "header" THEN HeaderOf(g, "x-forwarded-for") ELSE "uri"
  IN Emit("envoy", g, o, OneCond(Cond(reads, "in", NonEmpty(g), "both", {})),
          o.scoped, {}, {})

\* Location blocks as for nginx, but without its fallback, and without scope.
K8s(g, o, done) ==
  Emit("k8s", g, o,
       IF Loc(g) = "uri"
         THEN LET kinds == ByKind(Split(WithoutSlash(NonEmpty(g))), "below", "in", CaseForVcs)
              IN IF kinds = {} THEN {{Cond("path", "in", {}, "both", {})}} ELSE AnyOf(kinds)
       ELSE OneCond(Cond(SimpleField(g), "in", NonEmpty(g), "both", {})),
       FALSE, {}, {})

-----------------------------------------------------------------------------
(* index.ts                                                                *)

\* filterBypasses
Bypasses(rs, o) ==
  Keep(rs, {rs[i] : i \in {j \in DOMAIN rs : \/ rs[j].status = "200"
                                             \/ o.misses /\ rs[j].status = "404"}})

\* These generators give the numbered key of a group to their helpers, the
\* others the category of its first item.
KeyedByGroup == PatchVendors \ {"aws", "modsecurity", "nginx"}

\* The first items of the groups of bs, in their order.
Heads(bs, o) ==
  Keep([i \in DOMAIN bs |-> i],
       {i \in DOMAIN bs : ~o.grouped \/ \A j \in 1 .. i - 1 : bs[j].cat # bs[i].cat})

\* The group whose first item is b.
GroupOf(v, b, bs, o) ==
  [label |-> [cat |-> b.cat, numbered |-> ~o.grouped /\ v \in KeyedByGroup],
   first |-> b,
   items |-> IF o.grouped THEN {bs[j] : j \in {x \in DOMAIN bs : bs[x].cat = b.cat}}
                          ELSE {b}]

Groups(v, bs, o) ==
  [k \in DOMAIN Heads(bs, o) |-> GroupOf(v, bs[Heads(bs, o)[k]], bs, o)]

Generate(v, g, o, done, k) ==
  CASE v = "cloudflare"  -> Cloudflare(g, o, done) [] v = "aws"   -> Aws(g, o, done, k)
    [] v = "modsecurity" -> ModSecurity(g, o, done) [] v = "nginx" -> Nginx(g, o, done)
    [] v = "gcp"     -> Gcp(g, o, done)     [] v = "azure"  -> Azure(g, o, done)
    [] v = "haproxy" -> HAProxy(g, o, done) [] v = "caddy"  -> Caddy(g, o, done)
    [] v = "apache"  -> Apache(g, o, done)  [] v = "envoy"  -> Envoy(g, o, done)
    [] v = "k8s"     -> K8s(g, o, done)

PatchesFor(v, bs, o) ==
  LET gs == Groups(v, bs, o)
      upTo[k \in 0 .. Len(gs)] ==
        IF k = 0 THEN << >> ELSE upTo[k - 1] \o Generate(v, gs[k], o, upTo[k - 1], k)
  IN upTo[Len(gs)]

\* Mutant: coraza is generated but its bundle looks for its own name.
NativeVendorLiteral(v) == v
\* Coraza takes the ModSecurity rules.
NativeVendor(v) == IF v = "coraza" THEN "modsecurity" ELSE v

Asked(o) == IF o.vendor = "all" THEN PatchVendors ELSE {IF o.vendor = "coraza" THEN "modsecurity" ELSE o.vendor}

\* The joined rules of a bundle, by the products whose patches it collects.
Bundles(o, patches) ==
  [v \in IF o.vendor = "all" THEN PatchVendors ELSE {o.vendor} |->
     IF NativeVendor(v) \in DOMAIN patches THEN patches[NativeVendor(v)] ELSE << >>]

\* generateVirtualPatches
Report(rs, o) ==
  LET bs == Bypasses(rs, o)
      patches == [v \in Asked(o) |-> PatchesFor(v, bs, o)]
  IN [bypasses |-> bs, patches |-> patches, bundles |-> Bundles(o, patches)]

NoReport == [bypasses |-> << >>, patches |-> << >>, bundles |-> << >>]

Init == scan = << >> /\ options = [vendor |-> "none"] /\ report = NoReport

\* A report over the results of a scan.
Ask ==
  /\ scan = << >>
  /\ \E o \in Choices, rs \in Stored :
       /\ scan' = rs
       /\ options' = o
       /\ report' = Report(scan', o)

Next == Ask
Spec == Init /\ [][Next]_vars

-----------------------------------------------------------------------------
(* The products that run the rules (external).                             *)

\* The parts of a request that a condition on `reads` looks at.
Seen(reads) ==
  CASE reads = "uri"  -> {"path", "query"}
    [] reads = "args" -> {"query", "body"}
    [] OTHER -> {reads}

\* The token stands at the end of the path, inside a directory, or anywhere; and
\* nowhere as the value of a parameter that the scan does not send.
Stands(op, form) ==
  CASE op = "ends"      -> form \notin {"hidden", "vcsdir"}
    [] op = "inside"    -> form = "vcsdir"
    [] op = "literally" -> FALSE
    [] OTHER -> TRUE

\* What the text of the payload has become in its place of the request.
Encoding(r) ==
  IF r.form = "word" \/ Where(r) \notin {"query", "body"} THEN {}
  ELSE {"percent"} \cup IF r.form \in {"phrase", "oddphrase"} /\ Where(r) = "body" THEN {"plus"} ELSE {}

\* The case of token t and that of the payload agree as far as they are compared.
Folds(fold, t, r) ==
  CASE fold = "both" -> TRUE [] fold = "field" -> ~t.caps [] OTHER -> t.caps = r.caps

\* The condition holds of the request of r.  A payload of type Header was sent
\* as "Name: value", which no header's value contains.
Holds(c, label, r) ==
  /\ ~r.altered /\ r.form \notin Odd \cup {"blank"}
  /\ Where(r) \in Seen(c.reads)
  /\ Token(label, r) \in c.tokens
  /\ Stands(c.op, r.form)
  /\ Encoding(r) \subseteq c.decodes
  /\ Folds(c.fold, Token(label, r), r)

\* A scoped rule is asked only about the path that was scanned; files are
\* requested at the root of the host.
Blocks(p, r) ==
  /\ p.tier = "strict"
  /\ p.scoped => Where(r) # "path"
  /\ \E alt \in p.alts : \A c \in alt : Holds(c, p.label, r)

-----------------------------------------------------------------------------
(* Properties.                                                             *)

Bodies  == {"cloudflare", "aws", "modsecurity", "azure"}
Enders  == {"nginx", "gcp", "azure", "haproxy", "caddy", "k8s"}
Decodes == [v \in PatchVendors |-> CASE v = "modsecurity" -> {"percent", "plus"}
                                     [] v = "aws" -> {"percent"} [] OTHER -> {}]
SameGroup(r) ==
  {report.bypasses[i] : i \in {x \in DOMAIN report.bypasses :
                                 options.grouped => report.bypasses[x].cat = r.cat}}

\* A parameter is covered if the product can read its place and undoes what the
\* request made of it, if every bypass of its group travelled the same way and if
\* none of them has signs that a rule reads otherwise.
ParameterCovered(v, r) ==
  /\ ~r.altered /\ Where(r) \in {"query", "body"} /\ r.form \in {"word", "text", "phrase"}
  /\ r.cat \notin DefaultUri \cup DefaultHeader
  /\ r.cat \in DefaultBody => Where(r) = "body"
  /\ options.grouped => \A s \in SameGroup(r) : Where(s) = Where(r) /\ s.form \notin Odd
  /\ Where(r) = "body" => v \in Bodies
  /\ Encoding(r) \subseteq Decodes[v]
  /\ r.caps => v # "modsecurity"
  /\ v # "caddy"
  /\ options.scoped => v \notin {"haproxy", "nginx"}

Kind(r) == IF r.form \in {"vcs", "vcsdir"} THEN "vcs" ELSE IF r.form = "name" THEN "name" ELSE "ext"

\* The products that miss a file with capitals: those that compare the case with a
\* token in lower case, and for a name the one that lowers only what it reads.
MissesCapitals ==
  [ext |-> {"azure"}, vcs |-> {"azure", "nginx", "gcp", "k8s"}, name |-> {"modsecurity"}]

\* A file is covered if the rule is not scoped elsewhere, its group is known by
\* name, and its extension ends the path where the product looks for an end.
FileCovered(v, r) ==
  /\ ~r.altered /\ Where(r) = "path" /\ r.form \in FileForms
  /\ options.grouped \/ v \notin KeyedByGroup
  /\ options.scoped => v \in {"azure", "k8s"}
  /\ v \in Enders => r.form # "hidden"
  /\ v = "caddy" => r.form # "vcs"
  /\ v = "azure" => \A s \in SameGroup(r) : Kind(s) = Kind(r)
  /\ r.caps => v \notin MissesCapitals[Kind(r)]

\* "ready-to-deploy virtual patches ... for all detected WAF bypasses"
\* (index.ts:57-58): a strict patch, taken by itself, looks for each bypass that is
\* covered, in the part of the request that carried it and in the text it had
\* there.  Of the others nothing is said: the rules for them need not match.
VerifiedIsLookedFor ==
  options.vendor # "none" /\ options.tier # "heuristic" =>
    \A v \in Asked(options), i \in DOMAIN report.bypasses :
      LET r == report.bypasses[i] IN
      ParameterCovered(v, r) \/ FileCovered(v, r) =>
        \E k \in DOMAIN report.patches[v] : Blocks(report.patches[v][k], r)

\* Rules of one product have different ids or priorities
\* (virtual-patch-invariants.spec.ts: "rule priorities are unique").
IdsUnique ==
  \A v \in DOMAIN report.patches : \A i, j \in DOMAIN report.patches[v] :
    i # j => report.patches[v][i].ids \cap report.patches[v][j].ids = {}

\* Azure and AWS refuse a rule that looks for nothing (aws.ts: "Empty tokens
\* ... are dropped"; azure.ts:186-188: Azure rejects "a custom rule with no conditions").
NothingEmpty ==
  \A v \in DOMAIN report.patches \cap {"aws", "azure"} :
    \A k \in DOMAIN report.patches[v] : \A alt \in report.patches[v][k].alts :
      alt # {} /\ \A c \in alt : c.tokens # {} /\ \A t \in c.tokens : t.text # ""

\* Every patch of a report is in a bundle.
BundlesComplete ==
  \A v \in DOMAIN report.patches : report.patches[v] # << >> =>
    \E b \in DOMAIN report.bundles : report.bundles[b] = report.patches[v]

\* What the generators promise of every report, for any number of bypasses of any
\* categories, grouped or not, scoped or not.
PatchesHold == VerifiedIsLookedFor /\ IdsUnique /\ NothingEmpty /\ BundlesComplete
=============================================================================
