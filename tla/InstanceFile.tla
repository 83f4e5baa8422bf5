---------------------------- MODULE InstanceFile ----------------------------
(***************************************************************************)
(* core/workflow/instance_io.py: how the executor finds, reads and writes  *)
(* an instance of a workflow other than coding-session, what `tripwire     *)
(* validate` makes of such a file (check_instance_shape_conforms), and     *)
(* which lock of the executor guards it.  Computation only; the theorems   *)
(* about it follow the definitions.                                        *)
(*                                                                         *)
(* A file is a mapping, alone or as front matter before a body.  In memory *)
(* the body is one more key of the mapping, and having that key is what    *)
(* tells the two apart when the mapping is written.                        *)
(***************************************************************************)
CONSTANTS
  Keys,       \* of the mappings in the files
  Scalars,    \* values of the keys
  Texts,      \* bodies, without the newline at the end
  Empty,      \* the text with nothing in it
  Names       \* of instances, or of what callers take for one

BodyKey == "body"
Bodies == [text : Texts \cup {Empty}, ended : BOOLEAN]
NoBody == [text |-> Empty, ended |-> FALSE]

Mappings(K) == UNION {[D -> Scalars] : D \in SUBSET K}
Files == [front : BOOLEAN, data : Mappings(Keys), body : Bodies]
WellFormed(f) == ~f.front => f.body = NoBody

-----------------------------------------------------------------------------

parse_instance_text(f) ==
  IF f.front
  THEN [k \in DOMAIN f.data \cup {BodyKey} |-> IF k = BodyKey THEN f.body ELSE f.data[k]]
  ELSE f.data

\* serialize_frontmatter_body ends a body with a newline; a body that is no text
\* is dropped.
AsBody(b) ==
  IF b \in Bodies THEN [text |-> b.text, ended |-> IF b.text = Empty THEN b.ended ELSE TRUE]
  ELSE NoBody

serialise_instance_data(data) ==
  IF BodyKey \in DOMAIN data
  THEN [front |-> TRUE, data |-> [k \in DOMAIN data \ {BodyKey} |-> data[k]],
        body |-> AsBody(data[BodyKey])]
  ELSE [front |-> FALSE, data |-> data, body |-> NoBody]

set_key(data, key, value) ==
  [k \in DOMAIN data \cup {key} |-> IF k = key THEN value ELSE data[k]]

\* What the executor writes besides the status.
VisitKey == "current_status_instance"
TimeKey == "updated_at"
Stamps == {VisitKey, TimeKey}

\* What a move leaves of a file: load, set the status, stamp the visit and the
\* time, save.
AfterMove(f, field, value, visit, now) ==
  LET moved == set_key(parse_instance_text(f), field, value)
  IN serialise_instance_data(set_key(set_key(moved, VisitKey, visit), TimeKey, now))

-----------------------------------------------------------------------------
(* Places.  A shape says whether its storage_path has {instance_id} in it. *)

render_storage_path(shape, name) == IF shape.placeholder THEN <<name>> ELSE << >>
transition_lock_path(wf, name) == <<wf, name>>

\* Callers that end up with one file take one lock.
OneLockPerFile(wf, shape) ==
  \A a, b \in Names :
     render_storage_path(shape, a) = render_storage_path(shape, b)
       => transition_lock_path(wf, a) = transition_lock_path(wf, b)

\* files: what is on disk, by path: whether it parses, and the file.
\* Without a placeholder list_instances raises, and the check goes on elsewhere.
list_instances(shape, files) ==
  IF shape.placeholder THEN {a \in Names : <<a>> \in DOMAIN files} ELSE {}

\* A required key counts as missing when its value is blank.
check_instance_shape_conforms(shape, files) ==
  LET data(a) == parse_instance_text(files[<<a>>].file)
      read == {a \in list_instances(shape, files) : files[<<a>>].parses}
      missing(a) == {k \in shape.required : k \in DOMAIN data(a) => data(a)[k] \in shape.blank}
      legal(a) == shape.field \in DOMAIN data(a) /\ data(a)[shape.field] \in shape.enum
  IN UNION {{<<"missing_required_field", a, k>> : k \in missing(a)} : a \in read} \cup
     {<<"invalid_status_value", a, shape.field>> :
        a \in {x \in read : shape.enum # {} /\ ~legal(x)}}
=============================================================================
