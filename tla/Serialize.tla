----------------------------- MODULE Serialize -----------------------------
(***************************************************************************)
(* Saving and restoring tensor options and tensors by position             *)
(* (c10/serialize.h), with the options set one by one as in                *)
(* c10/test_tensor_options.cpp.                                            *)
(*                                                                         *)
(* An IValue is a pair of its tag and its value: scalar types, layouts and *)
(* memory formats are all plain integers once they are IValues.            *)
(***************************************************************************)
EXTENDS Integers, Sequences

CONSTANTS
  Dtypes, Layouts, Formats,   \* the numbers of the enumerations
  Devices,
  Tensors,
  DefaultDtype, DefaultLayout, DefaultDevice,
  Unset

ASSUME SerializeConstants ==
  /\ Dtypes \cup Layouts \cup Formats \subseteq Int
  /\ Unset \notin Int \cup BOOLEAN \cup Devices
  /\ DefaultDtype \in Dtypes /\ DefaultLayout \in Layouts /\ DefaultDevice \in Devices

VARIABLES
  options,    \* the TensorOptions under test, Unset where nothing was set
  saved,      \* the vector of strings, as the IValues they hold
  source,     \* [kind, value] of what was saved: history, not in the code
  restored    \* [kind, value] of the last restore

vars == <<options, saved, source, restored>>

Field == [dtype |-> Dtypes, device |-> Devices, layout |-> Layouts,
          memory_format |-> Formats, requires_grad |-> BOOLEAN, pinned_memory |-> BOOLEAN]

NoOptions == [f \in DOMAIN Field |-> Unset]
Nothing == [kind |-> "nothing", value |-> Unset]
Refused(kind) == [kind |-> kind, value |-> Unset]

\* TensorOptions (external): the getters with a default, which take the place
\* of what was not set.
Dtype(o) == IF o.dtype = Unset THEN DefaultDtype ELSE o.dtype
Device(o) == IF o.device = Unset THEN DefaultDevice ELSE o.device
Layout(o) == IF o.layout = Unset THEN DefaultLayout ELSE o.layout

\* IValue(optional) and its way back.
IntOrNone(v) == IF v = Unset THEN <<"None", Unset>> ELSE <<"Int", v>>
BoolOrNone(v) == IF v = Unset THEN <<"None", Unset>> ELSE <<"Bool", v>>
Tagged(iv, tags) == iv[1] \in tags

----------------------------------------------------------------------------
\* A setter of TensorOptions.
Set(f, v) ==
  /\ options' = [options EXCEPT ![f] = v]
  /\ UNCHANGED <<saved, source, restored>>

\* mutant: memory format before layout.
FormatFirst(o) == <<
  <<"Int", Dtype(o)>>, <<"Device", Device(o)>>,
  IntOrNone(o.memory_format), <<"Int", Layout(o)>>,
  BoolOrNone(o.requires_grad), BoolOrNone(o.pinned_memory) >>

\* mutant: the options as they are, without the defaults.
AsSet(o) == <<
  IntOrNone(o.dtype), <<"Device", Device(o)>>, IntOrNone(o.layout),
  IntOrNone(o.memory_format), BoolOrNone(o.requires_grad), BoolOrNone(o.pinned_memory) >>

\* What serialize_to_vec_string<TensorOptions> puts in, in this order.
Positions(o) == <<
  <<"Int", Dtype(o)>>, <<"Device", Device(o)>>, <<"Int", Layout(o)>>,
  IntOrNone(o.memory_format), BoolOrNone(o.requires_grad), BoolOrNone(o.pinned_memory) >>

SaveOptions ==
  /\ saved' = Positions(options)
  /\ source' = [kind |-> "options", value |-> options]
  /\ restored' = Nothing
  /\ UNCHANGED options

\* serialize_to_vec_string<Tensor>: one string.
SaveTensor(t) ==
  /\ saved' = << <<"Tensor", t>> >>
  /\ source' = [kind |-> "tensor", value |-> t]
  /\ restored' = Nothing
  /\ UNCHANGED options

\* restore with TensorOptionsKind.  There is no check of the size: the
\* vector has the six values that its elements are taken for, or the program
\* is lost; the conversions do check the tags.
RestoreOptions ==
  /\ Len(saved) = 6
  /\ restored' =
       IF /\ Tagged(saved[1], {"Int"}) /\ Tagged(saved[2], {"Device"})
          /\ Tagged(saved[3], {"Int"}) /\ Tagged(saved[4], {"Int", "None"})
          /\ Tagged(saved[5], {"Bool", "None"}) /\ Tagged(saved[6], {"Bool", "None"})
       THEN [kind |-> "options",
             value |-> [dtype |-> saved[1][2], device |-> saved[2][2],
                        layout |-> saved[3][2], memory_format |-> saved[4][2],
                        requires_grad |-> saved[5][2], pinned_memory |-> saved[6][2]]]
       ELSE Refused("no options")
  /\ UNCHANGED <<options, saved, source>>

\* mutant: toTensor is not checked.
RestoreUnchecked ==
  /\ restored' = IF saved # <<>> THEN [kind |-> "tensor", value |-> saved[1][2]] ELSE Refused("no tensor")
  /\ UNCHANGED <<options, saved, source>>

\* restore with TensorKind: TORCH_CHECK of the size, toTensor checks the tag.
RestoreTensor ==
  /\ restored' = IF saved # <<>> /\ Tagged(saved[1], {"Tensor"})
                 THEN [kind |-> "tensor", value |-> saved[1][2]] ELSE Refused("no tensor")
  /\ UNCHANGED <<options, saved, source>>

Init ==
  /\ options = NoOptions
  /\ saved = <<>>
  /\ source = Nothing
  /\ restored = Nothing

Next ==
  \/ \E f \in DOMAIN Field : \E v \in Field[f] : Set(f, v)
  \/ SaveOptions
  \/ \E t \in Tensors : SaveTensor(t)
  \/ RestoreOptions
  \/ RestoreTensor

Spec == Init /\ [][Next]_vars
----------------------------------------------------------------------------
\* Types.
TypeOK ==
  /\ options \in [dtype : Dtypes \cup {Unset}, device : Devices \cup {Unset},
                  layout : Layouts \cup {Unset}, memory_format : Formats \cup {Unset},
                  requires_grad : BOOLEAN \cup {Unset}, pinned_memory : BOOLEAN \cup {Unset}]
  /\ Len(saved) \in {0, 1, 6}
  /\ restored.kind = "options" =>
       /\ restored.value.dtype \in Dtypes
       /\ restored.value.device \in Devices
       /\ restored.value.layout \in Layouts

\* Saved options are never refused, and what is restored looks like what was
\* saved: the comparison of check_tensor_options_equal
\* (c10/test_tensor_options.cpp), for options that may have been changed after
\* saving (serialize_to_vec_string, restore).
OptionsRestored ==
  /\ restored.kind # "no options"
  /\ restored.kind = "options" =>
       LET lhs == source.value  rhs == restored.value
       IN  /\ source.kind = "options"
           /\ Dtype(lhs) = Dtype(rhs) /\ Device(lhs) = Device(rhs) /\ Layout(lhs) = Layout(rhs)
           /\ \A f \in {"memory_format", "requires_grad", "pinned_memory"} : lhs[f] = rhs[f]

\* A vector that holds no tensor is refused by the restore for tensors,
\* never taken for one, and one that does gives the tensor (restore with
\* TensorKind).
TensorsChecked == restored.kind = "tensor" => restored = source
============================================================================
