-------------------------- MODULE RenderConfigProofs --------------------------
(***************************************************************************)
(* Proofs about RenderConfig, for any number of runs and deviations.       *)
(***************************************************************************)
EXTENDS RenderConfig, TLAPS

Contents ==
  {Absent} \cup {Rendered(theJob, TRUE) : theJob \in Jobs}
           \cup {Rendered(theJob, FALSE) : theJob \in Jobs}

Rendering == {"render", "create", "write", "rename"}

TypeInv ==
  /\ step \in {"none", "validate"} \cup Rendering
  /\ step # "none" => job \in Jobs /\ runs \in 1..MaxRuns
  /\ step \in Rendering => current \in FileNames
  /\ runs \in 0..MaxRuns
  /\ files \in [Paths -> Contents]

\* What a job has to be for its file to be published.
Publishable(name, theJob) ==
  theJob \in Jobs /\ ValidOptions(theJob.options) /\ Renders(name, theJob.templates[name])

\* The file being rendered, as far as it has come.
CurrentFile ==
  /\ step \in Rendering => ValidOptions(job.options)
  /\ step \in {"create", "write", "rename"} => Renders(current, job.templates[current])
  /\ step = "rename" => files[TemporaryPath(current)] = Rendered(job, TRUE)

\* What is published is whole and was publishable.
PublishedFiles ==
  \A name \in FileNames :
    /\ Output(name).whole
    /\ Present(name) => Publishable(name, Output(name).job)

\* The first file is published before the second is rendered.
FirstPublished ==
  step \in Rendering /\ LastFile => Output("oathkeeper.yml") = Rendered(job, TRUE)

\* Where temporary files may be.
Leftovers ==
  \A name \in FileNames, run \in 1..MaxRuns :
    files[<<name, run>>] # Absent =>
      \/ run \in killed
      \/ run = runs /\ name = current /\ step \in {"write", "rename"}

RenderInv ==
  /\ TypeInv /\ CurrentFile /\ PublishedFiles /\ FirstPublished /\ Leftovers
  /\ SuccessPublishesBoth /\ (result = "published" => step = "none")

-----------------------------------------------------------------------------
LEMMA InitRender == Init => RenderInv
<1> SUFFICES ASSUME Init PROVE RenderInv
  OBVIOUS
<1> USE RenderAssumption DEF Init
<1>1. TypeInv
  BY DEF TypeInv, Contents, Rendering
<1>2. \A name \in FileNames : Output(name) = Absent
  BY DEF Output, OutputPath, Paths
<1>3. PublishedFiles
  BY <1>2 DEF PublishedFiles, Present, Absent
<1>4. CurrentFile /\ FirstPublished /\ SuccessPublishesBoth
  BY DEF CurrentFile, FirstPublished, Rendering, SuccessPublishesBoth
<1>5. Leftovers
  BY DEF Leftovers, Paths
<1>6. QED
  BY <1>1, <1>3, <1>4, <1>5 DEF RenderInv

LEMMA RenderedIsContents ==
  ASSUME NEW theJob \in Jobs, NEW whole \in BOOLEAN
  PROVE  Rendered(theJob, whole) \in Contents
<1>1. CASE whole
  BY <1>1, whole = TRUE DEF Contents
<1>2. CASE ~whole
  BY <1>2, whole = FALSE DEF Contents
<1>3. QED
  BY <1>1, <1>2

\* Steps that leave the files alone and end nothing well.
LEMMA FilesUnchanged ==
  ASSUME RenderInv, TypeInv', CurrentFile', files' = files,
         result' # "published",
         step' \in Rendering => step \in Rendering /\ job' = job /\ current' = current,
         \/ step' = step /\ killed' = killed /\ runs' = runs /\ current' = current
         \/ step \notin {"write", "rename"} /\ killed \subseteq killed'
         \/ killed' = killed \cup {runs}
  PROVE  RenderInv'
<1>1. PublishedFiles'
  BY DEF RenderInv, PublishedFiles, Present, Output
<1>2. FirstPublished'
  BY DEF RenderInv, FirstPublished, LastFile, Output
<1>3. Leftovers'
  BY DEF RenderInv, Leftovers
<1>4. SuccessPublishesBoth'
  BY DEF SuccessPublishesBoth
<1>5. QED
  BY <1>1, <1>2, <1>3, <1>4 DEF RenderInv

LEMMA QuietKeeps ==
  ASSUME RenderInv,
         Start \/ Refuse \/ Validate \/ Render \/ RenderFailed \/ Killed
  PROVE  RenderInv'
<1> USE RenderAssumption DEF Exit
<1>1. TypeInv /\ CurrentFile
  BY DEF RenderInv
<1>2. CASE Start
  BY <1>1, <1>2, FilesUnchanged DEF Start, TypeInv, CurrentFile, Rendering
<1>3. CASE Refuse \/ RenderFailed
  BY <1>1, <1>3, FilesUnchanged DEF Refuse, RenderFailed, TypeInv, CurrentFile, Rendering
<1>4. CASE Validate
  <2>1. TypeInv' /\ CurrentFile'
    BY <1>1, <1>4 DEF Validate, TypeInv, CurrentFile, Rendering, FileNames
  <2>2. PublishedFiles' /\ Leftovers'
    BY <1>4 DEF Validate, RenderInv, PublishedFiles, Present, Output, Leftovers
  <2>3. FirstPublished' /\ result' # "published"
    BY <1>4 DEF Validate, FirstPublished, LastFile, RenderInv
  <2>4. QED
    BY <2>1, <2>2, <2>3 DEF RenderInv, SuccessPublishesBoth
<1>5. CASE Render
  <2>1. TypeInv' /\ CurrentFile' /\ result' # "published"
    BY <1>1, <1>5 DEF Render, TypeInv, CurrentFile, Rendering, RenderInv
  <2>2. QED
    BY <2>1, <1>5, FilesUnchanged DEF Render, Rendering
<1>6. CASE Killed
  BY <1>1, <1>6, FilesUnchanged DEF Killed, TypeInv, CurrentFile, Rendering
<1>7. QED
  BY <1>2, <1>3, <1>4, <1>5, <1>6

\* A temporary path is nobody's output.
LEMMA PathsDiffer ==
  ASSUME TypeInv, step \in Rendering
  PROVE  /\ TemporaryPath(current) \in Paths
         /\ \A name \in FileNames : OutputPath(name) \in Paths /\ OutputPath(name) # TemporaryPath(current)
BY RenderAssumption DEF TypeInv, Rendering, TemporaryPath, OutputPath, Paths

\* Steps that write the temporary file only.
LEMMA TemporaryWritten ==
  ASSUME RenderInv, step \in Rendering, UNCHANGED <<job, runs, killed>>,
         NEW contents, contents \in Contents,
         files' = [files EXCEPT ![TemporaryPath(current)] = contents],
         step' = "none" => contents = Absent,
         step' # "none" => /\ step' \in {"write", "rename"} /\ step # "render"
                           /\ current' = current,
         step' = "rename" => contents = Rendered(job, TRUE),
         result' # "published"
  PROVE  RenderInv'
<1> USE RenderAssumption
<1>1. TypeInv /\ CurrentFile
  BY DEF RenderInv
<1>2. TypeInv'
  BY <1>1 DEF TypeInv, Rendering
<1>3. \A name \in FileNames : Output(name)' = Output(name)
  BY <1>1, PathsDiffer DEF Output, TypeInv
<1>4. PublishedFiles'
  BY <1>3 DEF RenderInv, PublishedFiles, Present
<1>5. FirstPublished'
  BY <1>3 DEF RenderInv, FirstPublished, LastFile, FileNames, Rendering
<1>6. CurrentFile'
  <2>1. files'[TemporaryPath(current)] = contents
    BY <1>1, PathsDiffer DEF TypeInv
  <2>2. QED
    BY <1>1, <2>1 DEF CurrentFile, TemporaryPath, Rendering
<1>7. Leftovers'
  <2> SUFFICES ASSUME NEW name \in FileNames, NEW run \in 1..MaxRuns, files'[<<name, run>>] # Absent
               PROVE  \/ run \in killed'
                      \/ run = runs' /\ name = current' /\ step' \in {"write", "rename"}
    BY DEF Leftovers
  <2>1. <<name, run>> \in Paths
    BY DEF Paths
  <2>2. CASE <<name, run>> = TemporaryPath(current)
    BY <2>1, <2>2, <1>1 DEF TemporaryPath, TypeInv
  <2>3. CASE <<name, run>> # TemporaryPath(current)
    <3>1. files[<<name, run>>] # Absent
      BY <2>1, <2>3, <1>1 DEF TypeInv
    <3>2. ~(run = runs /\ name = current)
      BY <2>3 DEF TemporaryPath
    <3>3. QED
      BY <3>1, <3>2 DEF RenderInv, Leftovers
  <2>4. QED
    BY <2>2, <2>3
<1>8. QED
  BY <1>2, <1>4, <1>5, <1>6, <1>7 DEF RenderInv, SuccessPublishesBoth

LEMMA WriteKeeps ==
  ASSUME RenderInv, CreateTemp \/ WriteAndClose \/ WriteFailed
  PROVE  RenderInv'
<1>1. TypeInv /\ CurrentFile /\ (result = "published" => step = "none")
  BY DEF RenderInv
<1>2. CASE CreateTemp
  <2> DEFINE written == Rendered(job, FALSE)
  <2>1. step \in Rendering /\ step' = "write" /\ job \in Jobs /\ result' # "published"
    BY <1>1, <1>2 DEF CreateTemp, TypeInv, Rendering
  <2>2. Rendered(job, FALSE) \in Contents
    BY <2>1, RenderedIsContents
  <2>3. step # "render"
    BY <1>2 DEF CreateTemp
  <2>4. /\ files' = [files EXCEPT ![TemporaryPath(current)] = written]
        /\ UNCHANGED <<job, runs, killed>> /\ current' = current
    BY <1>2 DEF CreateTemp
  <2>5. written \in Contents /\ (step' = "rename" => written = Rendered(job, TRUE))
    BY <2>1, <2>2
  <2> HIDE DEF written
  <2>6. QED
    BY <2>1, <2>3, <2>4, <2>5, TemporaryWritten
<1>3. CASE WriteAndClose
  <2> DEFINE written == Rendered(job, TRUE)
  <2>1. step \in Rendering /\ step' = "rename" /\ job \in Jobs /\ result' # "published"
    BY <1>1, <1>3 DEF WriteAndClose, TypeInv, Rendering
  <2>2. Rendered(job, TRUE) \in Contents
    BY <2>1, RenderedIsContents
  <2>3. step # "render"
    BY <1>3 DEF WriteAndClose
  <2>4. /\ files' = [files EXCEPT ![TemporaryPath(current)] = written]
        /\ UNCHANGED <<job, runs, killed>> /\ current' = current
    BY <1>3 DEF WriteAndClose
  <2>5. written \in Contents /\ (step' = "rename" => written = Rendered(job, TRUE))
    BY <2>1, <2>2
  <2> HIDE DEF written
  <2>6. QED
    BY <2>1, <2>3, <2>4, <2>5, TemporaryWritten
<1>4. CASE WriteFailed
  <2>1. Absent \in Contents
    BY DEF Contents
  <2>2. QED
    BY <1>1, <1>4, <2>1, TemporaryWritten DEF WriteFailed, Exit, Removed, Rendering
<1>5. QED
  BY <1>2, <1>3, <1>4

LEMMA RenameKeeps ==
  ASSUME RenderInv, Rename
  PROVE  RenderInv'
<1> USE RenderAssumption DEF Exit
<1>1. TypeInv /\ CurrentFile /\ step = "rename" /\ step \in Rendering /\ result # "published"
  BY DEF RenderInv, Rename, Rendering
<1>2. current \in FileNames /\ job \in Jobs /\ Rendered(job, TRUE) \in Contents /\ Absent \in Contents
  <2>1. current \in FileNames /\ job \in Jobs
    BY <1>1 DEF TypeInv
  <2>2. QED
    BY <2>1, RenderedIsContents DEF Contents
<1>3. files[TemporaryPath(current)] = Rendered(job, TRUE)
  BY <1>1 DEF CurrentFile
<1>4. /\ files' = [files EXCEPT ![OutputPath(current)] = Rendered(job, TRUE),
                               ![TemporaryPath(current)] = Absent]
      /\ UNCHANGED <<job, runs, killed>>
  BY <1>3 DEF Rename
<1>5. files' \in [Paths -> Contents]
  BY <1>1, <1>2, <1>4 DEF TypeInv
<1>6. \A name \in FileNames :
        Output(name)' = IF name = current THEN Rendered(job, TRUE) ELSE Output(name)
  <2> SUFFICES ASSUME NEW name \in FileNames
               PROVE  Output(name)' = IF name = current THEN Rendered(job, TRUE) ELSE Output(name)
    OBVIOUS
  <2>1. OutputPath(name) \in Paths /\ OutputPath(name) # TemporaryPath(current)
    BY <1>1, PathsDiffer
  <2>2. name = current <=> OutputPath(name) = OutputPath(current)
    BY DEF OutputPath
  <2>3. QED
    BY <2>1, <2>2, <1>1, <1>4 DEF Output, TypeInv
<1>7. TypeInv' /\ CurrentFile'
  BY <1>1, <1>4, <1>5 DEF Rename, TypeInv, CurrentFile, Rendering, FileNames
<1>8. PublishedFiles'
  <2>1. Publishable(current, job)
    BY <1>1, <1>2 DEF Publishable, CurrentFile
  <2>2. Rendered(job, TRUE).whole /\ Rendered(job, TRUE).job = job
    BY DEF Rendered
  <2>3. QED
    BY <2>1, <2>2, <1>6 DEF RenderInv, PublishedFiles, Present
<1>9. FirstPublished' /\ SuccessPublishesBoth' /\ (result' = "published" => step' = "none")
  <2>1. CASE LastFile
    <3>1. Output("oathkeeper.yml") = Rendered(job, TRUE)
      BY <1>1, <2>1 DEF RenderInv, FirstPublished
    <3>2. \A name \in FileNames : Output(name)' = Rendered(job, TRUE)
      BY <2>1, <3>1, <1>6 DEF LastFile, FileNames
    <3>3. QED
      BY <2>1, <3>2, <1>4 DEF Rename, FirstPublished, SuccessPublishesBoth, Rendering
  <2>2. CASE ~LastFile
    <3>1. current = "oathkeeper.yml"
      BY <2>2, <1>2 DEF LastFile, FileNames
    <3>2. Output("oathkeeper.yml")' = Rendered(job, TRUE)
      BY <3>1, <1>6 DEF FileNames
    <3>3. QED
      BY <2>2, <3>2, <1>1, <1>4 DEF Rename, FirstPublished, SuccessPublishesBoth
  <2>3. QED
    BY <2>1, <2>2
<1>10. Leftovers'
  <2> SUFFICES ASSUME NEW name \in FileNames, NEW run \in 1..MaxRuns, files'[<<name, run>>] # Absent
               PROVE  run \in killed
    BY <1>4 DEF Leftovers
  <2>1. <<name, run>> \in Paths /\ <<name, run>> # OutputPath(current)
    BY DEF Paths, OutputPath
  <2>2. <<name, run>> # TemporaryPath(current)
    BY <2>1, <1>1, <1>4 DEF TypeInv
  <2>3. files[<<name, run>>] # Absent
    BY <2>1, <2>2, <1>1, <1>4 DEF TypeInv
  <2>4. QED
    BY <2>2, <2>3 DEF RenderInv, Leftovers, TemporaryPath
<1>11. QED
  BY <1>7, <1>8, <1>9, <1>10 DEF RenderInv

LEMMA NextRender == RenderInv /\ [Next]_vars => RenderInv'
<1> SUFFICES ASSUME RenderInv, [Next]_vars PROVE RenderInv'
  OBVIOUS
<1>1. CASE UNCHANGED vars
  BY <1>1 DEF vars, RenderInv, TypeInv, CurrentFile, PublishedFiles, FirstPublished, Leftovers,
              SuccessPublishesBoth, Present, Output, LastFile, TemporaryPath
<1>2. QED
  BY <1>1, QuietKeeps, WriteKeeps, RenameKeeps DEF Next

LEMMA RenderAlways == Spec => []RenderInv
BY InitRender, NextRender, PTL DEF Spec

-----------------------------------------------------------------------------
\* A template has no marks but those that are known.
LEMMA MarksAreKnown ==
  ASSUME NEW theJob \in Jobs, NEW name \in FileNames
  PROVE  theJob.templates[name] \subseteq Replacements(name) \cup Marks
<1>1. \A marks \in TemplatesOf(name) : marks \subseteq Replacements(name) \cup Marks
  <2>1. Shipped(name) \subseteq Replacements(name) \cup Marks
    BY DEF Shipped, Marks
  <2>2. QED
    BY <2>1 DEF TemplatesOf
<1>2. theJob.templates[name] \in TemplatesOf(name)
  <2>1. Shipped(name) \in TemplatesOf(name)
    BY DEF TemplatesOf
  <2>2. CASE \E options \in Near(Deployment, OptionFields, MaxDeviations) :
               theJob = [options |-> options, templates |-> [file \in FileNames |-> Shipped(file)]]
    BY <2>1, <2>2
  <2>3. CASE \E templates \in {t \in [FileNames -> UNION {TemplatesOf(file) : file \in FileNames}] :
                                \A file \in FileNames : t[file] \in TemplatesOf(file)} :
               theJob = [options |-> [Deployment EXCEPT !.services = "other origin"],
                         templates |-> templates]
    <3>1. PICK templates \in {t \in [FileNames -> UNION {TemplatesOf(file) : file \in FileNames}] :
                                \A file \in FileNames : t[file] \in TemplatesOf(file)} :
                 theJob = [options |-> [Deployment EXCEPT !.services = "other origin"],
                           templates |-> templates]
      BY <2>3
    <3>2. theJob.templates = templates
      BY <3>1
    <3>3. templates[name] \in TemplatesOf(name)
      BY Zenon
    <3>4. QED
      BY <3>2, <3>3
  <2>4. QED
    BY <2>2, <2>3, Zenon DEF Jobs
<1>3. QED
  BY <1>1, <1>2

\* What a file contains is what one run has written to its end, whatever fails and
\* whenever the program is killed.
THEOREM PublishedIsWhole == Spec => []NeverHalfWritten
<1>1. RenderInv => NeverHalfWritten
  BY DEF RenderInv, PublishedFiles, NeverHalfWritten
<1>2. QED
  BY <1>1, RenderAlways, PTL

\* Nothing is published from options that do not validate.
LEMMA SoundOptions == RenderInv => OptionsAreSound
<1>1. ASSUME NEW options, ValidOptions(options)
      PROVE  /\ {options.site, options.issuer, options.services} \cap {"", "with path"} = {}
             /\ options.site # options.issuer
             /\ {options.authHeader, options.serviceHeader, options.cookie}
                  \cap {"", "two words"} = {}
             /\ <<options.authHeader, options.serviceHeader>> \notin
                  {<<"context", "context">>, <<"context", "CONTEXT">>,
                   <<"service", "service">>, <<"SERVICE", "service">>}
             /\ "Cookie" \notin {options.authHeader, options.serviceHeader}
  <2>1. options.site # options.issuer /\ {options.site, options.issuer, options.services} \subseteq Origins
    BY <1>1 DEF ValidOptions
  <2>2. /\ Lower(options.authHeader) # Lower(options.serviceHeader)
        /\ Lower(options.authHeader) # Lower("cookie") /\ Lower(options.serviceHeader) # Lower("cookie")
    BY <1>1 DEF ValidOptions, NewNames, DifferentHeaders
  <2>3. Lower("context") = Lower("CONTEXT") /\ Lower("service") = Lower("SERVICE")
        /\ Lower("Cookie") = Lower("cookie")
    BY DEF Lower
  <2>4. {options.authHeader, options.serviceHeader, options.cookie} \cap {"", "two words"} = {}
    <3>1. {options.authHeader, options.serviceHeader, options.cookie} \subseteq Tokens
      BY <1>1 DEF ValidOptions, NewNames
    <3>2. "" \notin Tokens /\ "two words" \notin Tokens
      BY Zenon DEF Tokens
    <3> HIDE DEF Tokens
    <3>3. QED
      BY <3>1, <3>2, Zenon
  <2>5. {options.site, options.issuer, options.services} \cap {"", "with path"} = {}
    <3>1. "" \notin Origins /\ "with path" \notin Origins
      BY Zenon DEF Origins
    <3>2. QED
      BY <2>1, <3>1, Zenon
  <2>6. /\ <<options.authHeader, options.serviceHeader>> \notin
             {<<"context", "context">>, <<"context", "CONTEXT">>,
              <<"service", "service">>, <<"SERVICE", "service">>}
        /\ "Cookie" \notin {options.authHeader, options.serviceHeader}
    BY <2>2, <2>3
  <2>7. QED
    BY <2>1, <2>4, <2>5, <2>6, Zenon
<1>2. QED
  BY <1>1 DEF RenderInv, PublishedFiles, Publishable, OptionsAreSound

\* A published file had every mark of its own and has none left that is looked for.
LEMMA MarkersAreReplaced == RenderInv => SoughtMarksReplaced
<1>1. ASSUME NEW theJob \in Jobs, NEW name \in FileNames, Renders(name, theJob.templates[name])
      PROVE  LET marks == theJob.templates[name]
             IN /\ \A mark \in Replacements(name) :
                     mark \in marks \/ (mark = "site" /\ "site/mcp" \in marks)
                /\ \A mark \in marks :
                     \/ mark \in Replacements(name) \cup Unsought(name)
                     \/ <<name, mark>> = <<"rules.yml", "site/mcp">>
  <2> DEFINE marks == theJob.templates[name]
  <2>1. /\ Replacements(name) \subseteq Contained(marks)
        /\ Contained(Left(name, marks)) \cap Unresolved = {}
    BY <1>1 DEF Renders
  <2>2. marks \subseteq Replacements(name) \cup Marks
    BY MarksAreKnown
  <2> HIDE DEF marks
  <2>3. \A mark \in Replacements(name) : mark \in marks \/ (mark = "site" /\ "site/mcp" \in marks)
    BY <2>1 DEF Contained
  <2>4. ASSUME NEW mark \in marks, mark \notin Replacements(name)
        PROVE  mark \in Unsought(name) \/ <<name, mark>> = <<"rules.yml", "site/mcp">>
    <3>1. mark \in Marks
      BY <2>2, <2>4
    <3>2. CASE mark \notin Left(name, marks)
      <4>1. mark = "site/mcp" /\ "site" \in Replacements(name)
        BY <2>4, <3>2 DEF Left
      <4>2. QED
        BY <4>1 DEF Replacements, FileNames
    <3>3. CASE mark \in Left(name, marks)
      <4>1. mark \in Contained(Left(name, marks))
        BY <3>3 DEF Contained
      <4>2. mark \notin Unresolved /\ "site" \in Unresolved
        BY <2>1, <4>1 DEF Unresolved
      <4>3. mark # "site/mcp"
        BY <2>1, <3>3, <4>2 DEF Contained
      <4>4. mark = "escaped site" \/ mark = "upstream"
        BY <3>1, <4>2, <4>3, Zenon DEF Marks
      <4>5. mark = "escaped site" => name = "oathkeeper.yml"
        <5>1. name # "oathkeeper.yml" => name = "rules.yml"
          BY DEF FileNames
        <5>2. "escaped site" \in Replacements("rules.yml")
          BY Zenon DEF Replacements
        <5>3. QED
          BY <2>4, <5>1, <5>2, Zenon
      <4>6. QED
        BY <4>4, <4>5, Zenon DEF Unsought
    <3>4. QED
      BY <3>2, <3>3
  <2>5. QED
    BY <2>3, <2>4 DEF marks
<1>2. QED
  BY <1>1, Zenon DEF RenderInv, PublishedFiles, Publishable, SoughtMarksReplaced

\* What is published is from valid options, from templates with every mark of their
\* own, and has none left that the renderer looks for, in any number of runs and for
\* any number of unusual options and marks (renderFile, Render).
THEOREM RenderingFailsClosed == Spec => []FailClosed
<1>1. RenderInv => FailClosed
  BY SoundOptions, MarkersAreReplaced DEF FailClosed
<1>2. QED
  BY <1>1, RenderAlways, PTL

\* A success has published both files of one run.
THEOREM SuccessMeansBoth == Spec => []SuccessPublishesBoth
<1>1. RenderInv => SuccessPublishesBoth
  BY DEF RenderInv
<1>2. QED
  BY <1>1, RenderAlways, PTL

\* Temporary files are left by killed runs only.
THEOREM OnlyKillsLeaveFiles == Spec => []NothingLeftBehind
<1>1. RenderInv => NothingLeftBehind
  <2> SUFFICES ASSUME RenderInv, NEW path \in Paths, files[path] # Absent, path[2] # 0
               PROVE  path[2] \in killed \/ (path[2] = runs /\ step # "none")
    BY DEF NothingLeftBehind
  <2>1. PICK name \in FileNames, run \in 0..MaxRuns : path = <<name, run>>
    BY DEF Paths
  <2>2. run \in 1..MaxRuns
    BY <2>1, RenderAssumption
  <2>3. QED
    BY <2>1, <2>2 DEF RenderInv, Leftovers
<1>2. QED
  BY <1>1, RenderAlways, PTL

=============================================================================
