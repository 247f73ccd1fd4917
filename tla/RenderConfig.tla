---------------------------- MODULE RenderConfig ----------------------------
(***************************************************************************)
(* Rendering the gateway's configuration                                   *)
(* (src/internal/oathkeeperconfig/render.go): the deployment's options are *)
(* validated, and then two templates are rendered and published one after  *)
(* the other, each by writing a temporary file and renaming it.  The       *)
(* program runs again and again, with other options or templates, and may  *)
(* fail or be killed at any step; the gateway reads whatever is published. *)
(***************************************************************************)
EXTENDS Checks, FiniteSets

CONSTANTS
  MaxRuns,        \* bound of the model: how often the program is run
  MaxDeviations   \* bound of the model: options and marks that differ from the usual

ASSUME RenderAssumption == {MaxRuns, MaxDeviations} \subseteq Nat

-----------------------------------------------------------------------------
\* The options.  A value stands for the strings that validation tells apart; the
\* three service URLs are validated alike and stand as one.

Deployment ==
  [site |-> "origin", issuer |-> "other origin", services |-> "origin",
   authHeader |-> "context", serviceHeader |-> "service", cookie |-> "session"]

OptionFields ==
  [site |-> {"other origin", "with path", ""},
   issuer |-> {"origin", "with path", ""},
   services |-> {"other origin", "with path", ""},
   authHeader |-> {"service", "SERVICE", "Cookie", "two words", ""},
   serviceHeader |-> {"context", "CONTEXT", "Cookie", "two words", ""},
   cookie |-> {"Cookie", "context", "two words", ""}]

Origins == {"origin", "other origin"}

Tokens == {"context", "CONTEXT", "service", "SERVICE", "session", "Cookie"}

\* strings.ToLower, as EqualFold compares.
Lower(name) ==
  CASE name = "CONTEXT" -> "context"
    [] name = "SERVICE" -> "service"
    [] name = "Cookie" -> "cookie"
    [] OTHER -> name

\* Mutant: names are compared as they are written.
NamesDiffer(left, right) == left # right

DifferentHeaders(left, right) == Lower(left) # Lower(right)

\* NamesFromLookup and NewNames.
NewNames(options) ==
  /\ {options.authHeader, options.serviceHeader, options.cookie} \subseteq Tokens
  /\ DifferentHeaders(options.authHeader, options.serviceHeader)
  /\ \A name \in {options.authHeader, options.serviceHeader} : DifferentHeaders(name, "cookie")

ValidOptions(options) ==
  /\ {options.site, options.issuer, options.services} \subseteq Origins
  /\ options.site # options.issuer
  /\ NewNames(options)

-----------------------------------------------------------------------------
\* The templates: the set of the marks each contains.

FileNames == {"oathkeeper.yml", "rules.yml"}

Replacements(name) ==
  IF name = "oathkeeper.yml"
    THEN {"site/mcp", "issuer", "services", "serviceHeader", "cookie"}
    ELSE {"escaped site", "site", "authHeader", "serviceHeader"}

\* What must not be left, in either file: all that is looked for when the marks of the
\* file have been replaced.
Unresolved == {"site", "issuer", "services", "authHeader", "serviceHeader", "cookie"}

\* The escaped origin of the site is a mark of the rules only, and not looked for.  The
\* other hosts below .example.invalid, the upstreams of routes.yml and of the generator,
\* are a mark that nobody replaces or looks for.
Marks == Unresolved \cup {"site/mcp", "escaped site", "upstream"}

Shipped(name) ==
  Replacements(name) \cup (IF name = "rules.yml" THEN {"upstream"} ELSE {})

\* A template as it is shipped, or with one mark more or less.
TemplatesOf(name) ==
  {Shipped(name)} \cup {Shipped(name) \ {mark} : mark \in Marks}
                  \cup {Shipped(name) \cup {mark} : mark \in Marks}

Jobs ==
  {[options |-> options, templates |-> [name \in FileNames |-> Shipped(name)]] :
     options \in Near(Deployment, OptionFields, MaxDeviations)}
  \cup {[options |-> [Deployment EXCEPT !.services = "other origin"], templates |-> templates] :
          templates \in {t \in [FileNames -> UNION {TemplatesOf(name) : name \in FileNames}] :
                           \A name \in FileNames : t[name] \in TemplatesOf(name)}}

\* The origin of the site followed by /mcp contains the origin of the site.
Contained(marks) == marks \cup (IF "site/mcp" \in marks THEN {"site"} ELSE {})

\* The marks that replacing leaves: replacing the site's origin replaces it in
\* front of /mcp too.
Left(name, marks) ==
  marks \ (Replacements(name) \cup (IF "site" \in Replacements(name) THEN {"site/mcp"} ELSE {}))

Renders(name, marks) ==
  /\ Replacements(name) \subseteq Contained(marks)
  /\ Contained(Left(name, marks)) \cap Unresolved = {}

-----------------------------------------------------------------------------
VARIABLES
  step,       \* "none", "validate", "render", "create", "write" or "rename"
  job,        \* the options and the templates of this run
  current,    \* the file that is being rendered
  runs,       \* how often the program has been started
  killed,     \* the runs that were killed
  files,      \* the contents of the paths in the output directory
  result      \* how the last run ended

vars == <<step, job, current, runs, killed, files, result>>

\* A path is a file name and the run it is a temporary file of, 0 for the output.
Paths == FileNames \X (0..MaxRuns)

OutputPath(name) == <<name, 0>>

\* Mutant: the file is written where it is read.
TemporaryIsOutput(name) == OutputPath(name)

TemporaryPath(name) == <<name, runs>>

Absent == [whole |-> TRUE, job |-> <<>>]

\* The file a job renders, whole or as far as it has been written.
Rendered(theJob, whole) == [whole |-> whole, job |-> theJob]

Init ==
  /\ step = "none" /\ job = <<>> /\ current = "none"
  /\ runs = 0 /\ killed = {} /\ result = "none"
  /\ files = [path \in Paths |-> Absent]

-----------------------------------------------------------------------------
Start ==
  /\ step = "none" /\ runs < MaxRuns
  /\ job' \in Jobs
  /\ runs' = runs + 1
  /\ step' = "validate" /\ result' = "none"
  /\ UNCHANGED <<current, killed, files>>

Exit(how) == step' = "none" /\ current' = "none" /\ result' = how

\* The deferred os.Remove, which has nothing to remove after the rename.
Removed == [files EXCEPT ![TemporaryPath(current)] = Absent]

\* Lines 37 to 88: the options are refused, or the output directory cannot be made.
Refuse ==
  /\ step = "validate"
  /\ Exit("failed")
  /\ UNCHANGED <<job, runs, killed, files>>

Validate ==
  /\ step = "validate"
  /\ ValidOptions(job.options)
  /\ step' = "render" /\ current' = "oathkeeper.yml"
  /\ UNCHANGED <<job, runs, killed, files, result>>

\* renderFile, up to the temporary file.
Render ==
  /\ step = "render"
  /\ Renders(current, job.templates[current])
  /\ step' = "create"
  /\ UNCHANGED <<job, current, runs, killed, files, result>>

\* The template cannot be read or rendered, or there is no temporary file.
RenderFailed ==
  /\ step \in {"render", "create"}
  /\ Exit("failed")
  /\ UNCHANGED <<job, runs, killed, files>>

CreateTemp ==
  /\ step = "create"
  /\ step' = "write"
  /\ files' = [files EXCEPT ![TemporaryPath(current)] = Rendered(job, FALSE)]
  /\ UNCHANGED <<job, current, runs, killed, result>>

WriteAndClose ==
  /\ step = "write"
  /\ step' = "rename"
  /\ files' = [files EXCEPT ![TemporaryPath(current)] = Rendered(job, TRUE)]
  /\ UNCHANGED <<job, current, runs, killed, result>>

\* The permissions, the write, the close or the rename fails.
WriteFailed ==
  /\ step \in {"write", "rename"}
  /\ Exit("failed")
  /\ files' = Removed
  /\ UNCHANGED <<job, runs, killed>>

\* Mutant: the first file is enough.
Finished == TRUE

LastFile == current = "rules.yml"

Rename ==
  /\ step = "rename"
  /\ files' = [files EXCEPT ![OutputPath(current)] = files[TemporaryPath(current)],
                            ![TemporaryPath(current)] = Absent]
  /\ IF LastFile THEN Exit("published")
                 ELSE step' = "render" /\ current' = "rules.yml" /\ result' = result
  /\ UNCHANGED <<job, runs, killed>>

\* The process is killed: nothing deferred runs.
Killed ==
  /\ step # "none"
  /\ Exit("killed")
  /\ killed' = killed \cup {runs}
  /\ UNCHANGED <<job, runs, files>>

Next ==
  \/ Start \/ Refuse \/ Validate \/ Render \/ RenderFailed
  \/ CreateTemp \/ WriteAndClose \/ WriteFailed \/ Rename \/ Killed

Spec == Init /\ [][Next]_vars

-----------------------------------------------------------------------------
Output(name) == files[OutputPath(name)]

Present(name) == Output(name) # Absent

\* Whatever fails and whenever the program is killed, the gateway finds a file that
\* is not there or that one run has written to its end.
NeverHalfWritten == \A name \in FileNames : Output(name).whole

\* Nothing is published from options under which a header of the gateway could be
\* mistaken for another or for a credential, or the site for the issuer, or from a
\* name that is missing or no token, whatever was published before.
OptionsAreSound ==
  \A name \in FileNames : Present(name) =>
    LET options == Output(name).job.options
    IN /\ {options.site, options.issuer, options.services} \cap {"", "with path"} = {}
       /\ options.site # options.issuer
       /\ {options.authHeader, options.serviceHeader, options.cookie}
            \cap {"", "two words"} = {}
       /\ <<options.authHeader, options.serviceHeader>> \notin
            {<<"context", "context">>, <<"context", "CONTEXT">>,
             <<"service", "service">>, <<"SERVICE", "service">>}
       /\ "Cookie" \notin {options.authHeader, options.serviceHeader}

\* The marks that stay in a published file: upstreams in either, and the escaped
\* origin of the site in the configuration.
Unsought(name) ==
  {"upstream"} \cup (IF name = "oathkeeper.yml" THEN {"escaped site"} ELSE {})

\* A file is published only if its template had each mark of that file, and has no
\* other mark left, also none that belongs into the other file, but for those that
\* nobody looks for.  (The origin of the site is replaced in front of /mcp too.)
SoughtMarksReplaced ==
  \A name \in FileNames : Present(name) =>
    LET marks == Output(name).job.templates[name]
    IN /\ \A mark \in Replacements(name) :
            mark \in marks \/ (mark = "site" /\ "site/mcp" \in marks)
       /\ \A mark \in marks :
            \/ mark \in Replacements(name) \cup Unsought(name)
            \/ <<name, mark>> = <<"rules.yml", "site/mcp">>

\* "Rendering is fail-closed: all three boundary names, both origins, and all three
\* service origins must be present and valid before an output is published"
\* (README.md:61 and 62), and each has been put in its place.
FailClosed == OptionsAreSound /\ SoughtMarksReplaced

\* Success means that both files are published and belong together.  (After a
\* failure or a kill they may not: the first may be of the new run and the second
\* of an earlier one.)
SuccessPublishesBoth ==
  result = "published" => \A name \in FileNames : Output(name) = Rendered(job, TRUE)

\* Only a killed run leaves its temporary file in the directory the gateway reads.
NothingLeftBehind ==
  \A path \in Paths :
    files[path] # Absent =>
      path[2] = 0 \/ path[2] \in killed \/ (path[2] = runs /\ step # "none")

=============================================================================
