-------------------------- MODULE Serialize_proofs --------------------------
(***************************************************************************)
(* Proofs about saving and restoring: options and tensors come back as     *)
(* they were saved, whatever was changed, saved or restored in between.    *)
(***************************************************************************)
EXTENDS Serialize, TLAPS

Options ==
  [dtype : Dtypes \cup {Unset}, device : Devices \cup {Unset},
   layout : Layouts \cup {Unset}, memory_format : Formats \cup {Unset},
   requires_grad : BOOLEAN \cup {Unset}, pinned_memory : BOOLEAN \cup {Unset}]

\* What the vector holds is what source says: nothing, options or a tensor.
SavedIsSource ==
  \/ saved = <<>> /\ source = Nothing
  \/ /\ source.kind = "options" /\ source.value \in Options
     /\ saved = Positions(source.value)
  \/ /\ source.kind = "tensor" /\ source = [kind |-> "tensor", value |-> source.value]
     /\ saved = << <<"Tensor", source.value>> >>

\* The options o as they come back: what was not set has its default.
WithDefaults(o) ==
  [dtype |-> Dtype(o), device |-> Device(o), layout |-> Layout(o),
   memory_format |-> o.memory_format, requires_grad |-> o.requires_grad,
   pinned_memory |-> o.pinned_memory]

\* The last restore was of what the vector still holds: saving anew makes it
\* nothing.
RestoredIsSource ==
  \/ restored.kind \in {"nothing", "no tensor"}
  \/ /\ restored.kind = "options" /\ restored.value = WithDefaults(source.value)
     /\ source.kind = "options" /\ source.value \in Options
  \/ restored.kind = "tensor" /\ restored = source

IInv == options \in Options /\ SavedIsSource /\ RestoredIsSource

----------------------------------------------------------------------------
\* The getters with a default give a value of their type.
LEMMA GetterFacts ==
  ASSUME NEW o \in Options
  PROVE  /\ Dtype(o) \in Dtypes /\ Device(o) \in Devices /\ Layout(o) \in Layouts
         /\ Dtype(o) # Unset /\ Device(o) # Unset /\ Layout(o) # Unset
  BY SerializeConstants DEF Options, Dtype, Device, Layout

LEMMA InitOK == Init => IInv
  <1> SUFFICES ASSUME Init PROVE IInv OBVIOUS
  <1>1. options \in Options
    <2>1. NoOptions = [dtype |-> Unset, device |-> Unset, layout |-> Unset,
                       memory_format |-> Unset, requires_grad |-> Unset,
                       pinned_memory |-> Unset]
      BY DEF NoOptions, Field
    <2> QED BY <2>1 DEF Init, Options
  <1>2. SavedIsSource BY DEF Init, SavedIsSource
  <1>3. RestoredIsSource BY DEF Init, RestoredIsSource, Nothing
  <1> QED BY <1>1, <1>2, <1>3 DEF IInv

LEMMA SetOK ==
  ASSUME IInv, NEW f \in DOMAIN Field, NEW v \in Field[f], Set(f, v) PROVE IInv'
  <1>1. options' = [options EXCEPT ![f] = v] /\ UNCHANGED <<saved, source, restored>>
    BY DEF Set
  <1>2. options' \in Options
    <2>1. f \in {"dtype", "device", "layout", "memory_format", "requires_grad",
                 "pinned_memory"}
      BY DEF Field
    <2>2. options \in Options BY DEF IInv
    <2>3. CASE f = "dtype" BY <2>2, <2>3, <1>1 DEF Options, Field
    <2>4. CASE f = "device" BY <2>2, <2>4, <1>1 DEF Options, Field
    <2>5. CASE f = "layout" BY <2>2, <2>5, <1>1 DEF Options, Field
    <2>6. CASE f = "memory_format" BY <2>2, <2>6, <1>1 DEF Options, Field
    <2>7. CASE f = "requires_grad" BY <2>2, <2>7, <1>1 DEF Options, Field
    <2>8. CASE f = "pinned_memory" BY <2>2, <2>8, <1>1 DEF Options, Field
    <2> QED BY <2>1, <2>3, <2>4, <2>5, <2>6, <2>7, <2>8
  <1> QED BY <1>1, <1>2 DEF IInv, SavedIsSource, RestoredIsSource

LEMMA SaveOptionsOK == ASSUME IInv, SaveOptions PROVE IInv'
  <1>1. /\ saved' = Positions(options) /\ options' = options
        /\ source' = [kind |-> "options", value |-> options]
        /\ restored' = Nothing
    BY DEF SaveOptions
  <1>2. source'.kind = "options" /\ source'.value = options BY <1>1
  <1>3. options \in Options BY DEF IInv
  <1>4. SavedIsSource' BY <1>1, <1>2, <1>3 DEF SavedIsSource
  <1>5. RestoredIsSource' BY <1>1 DEF RestoredIsSource, Nothing
  <1> QED BY <1>1, <1>3, <1>4, <1>5 DEF IInv

LEMMA SaveTensorOK == ASSUME IInv, NEW t, SaveTensor(t) PROVE IInv'
  <1>1. /\ saved' = << <<"Tensor", t>> >> /\ options' = options
        /\ source' = [kind |-> "tensor", value |-> t]
        /\ restored' = Nothing
    BY DEF SaveTensor
  <1>2. SavedIsSource' BY <1>1 DEF SavedIsSource
  <1>3. RestoredIsSource' BY <1>1 DEF RestoredIsSource, Nothing
  <1> QED BY <1>1, <1>2, <1>3 DEF IInv

\* A vector of six values is one of options, and every conversion finds the
\* tag it asks for.
LEMMA RestoreOptionsOK == ASSUME IInv, RestoreOptions PROVE IInv'
  <1> DEFINE o == source.value
  <1>1. Len(saved) = 6 /\ UNCHANGED <<options, saved, source>> BY DEF RestoreOptions
  <1>2. source.kind = "options" /\ o \in Options /\ saved = Positions(o)
    <2>1. saved # <<>> BY <1>1
    <2>2. saved # << <<"Tensor", source.value>> >> BY <1>1
    <2> QED BY <2>1, <2>2 DEF IInv, SavedIsSource
  <1> HIDE DEF o
  <1>3. /\ saved[1] = <<"Int", Dtype(o)>> /\ saved[2] = <<"Device", Device(o)>>
        /\ saved[3] = <<"Int", Layout(o)>> /\ saved[4] = IntOrNone(o.memory_format)
        /\ saved[5] = BoolOrNone(o.requires_grad)
        /\ saved[6] = BoolOrNone(o.pinned_memory)
    BY <1>2 DEF Positions
  <1>4. /\ Tagged(saved[1], {"Int"}) /\ Tagged(saved[2], {"Device"})
        /\ Tagged(saved[3], {"Int"}) /\ Tagged(saved[4], {"Int", "None"})
        /\ Tagged(saved[5], {"Bool", "None"}) /\ Tagged(saved[6], {"Bool", "None"})
    BY <1>3 DEF Tagged, IntOrNone, BoolOrNone
  <1>5. /\ saved[1][2] = Dtype(o) /\ saved[2][2] = Device(o) /\ saved[3][2] = Layout(o)
        /\ saved[4][2] = o.memory_format /\ saved[5][2] = o.requires_grad
        /\ saved[6][2] = o.pinned_memory
    BY <1>3 DEF IntOrNone, BoolOrNone
  <1>6. restored' = [kind |-> "options", value |-> WithDefaults(o)]
    BY <1>4, <1>5 DEF RestoreOptions, WithDefaults
  <1>7. restored'.kind = "options" /\ restored'.value = WithDefaults(o) BY <1>6
  <1>8. RestoredIsSource' BY <1>1, <1>2, <1>7 DEF RestoredIsSource, o
  <1> QED BY <1>1, <1>8 DEF IInv, SavedIsSource

LEMMA RestoreTensorOK == ASSUME IInv, RestoreTensor PROVE IInv'
  <1>1. /\ UNCHANGED <<options, saved, source>>
        /\ restored' = IF saved # <<>> /\ Tagged(saved[1], {"Tensor"})
                       THEN [kind |-> "tensor", value |-> saved[1][2]]
                       ELSE Refused("no tensor")
    BY DEF RestoreTensor
  <1>2. CASE saved # <<>> /\ Tagged(saved[1], {"Tensor"})
    <2>1. ASSUME source.kind = "options", saved = Positions(source.value) PROVE FALSE
      <3>1. saved[1] = <<"Int", Dtype(source.value)>> BY <2>1 DEF Positions
      <3> QED BY <3>1, <1>2 DEF Tagged
    <2>2. /\ source = [kind |-> "tensor", value |-> source.value]
          /\ saved = << <<"Tensor", source.value>> >>
      BY <2>1, <1>2 DEF IInv, SavedIsSource
    <2>3. saved[1][2] = source.value BY <2>2
    <2>4. restored' = source /\ source.kind = "tensor" BY <2>2, <2>3, <1>1, <1>2
    <2>5. RestoredIsSource' BY <2>4, <1>1 DEF RestoredIsSource
    <2> QED BY <2>5, <1>1 DEF IInv, SavedIsSource
  <1>3. CASE ~ (saved # <<>> /\ Tagged(saved[1], {"Tensor"}))
    <2>1. restored'.kind = "no tensor" BY <1>1, <1>3 DEF Refused
    <2>2. RestoredIsSource' BY <2>1 DEF RestoredIsSource
    <2> QED BY <2>2, <1>1 DEF IInv, SavedIsSource
  <1> QED BY <1>2, <1>3

LEMMA NextOK == IInv /\ [Next]_vars => IInv'
  <1> SUFFICES ASSUME IInv, [Next]_vars PROVE IInv' OBVIOUS
  <1>1. CASE UNCHANGED vars
    BY <1>1 DEF vars, IInv, SavedIsSource, RestoredIsSource
  <1> QED BY <1>1, SetOK, SaveOptionsOK, SaveTensorOK, RestoreOptionsOK,
             RestoreTensorOK DEF Next

\* The vector holds what was saved last, and the last restore is of that.
THEOREM Invariance == Spec => []IInv
  <1> QED BY InitOK, NextOK, PTL DEF Spec

----------------------------------------------------------------------------
\* The options have their types, and what is restored has every option that
\* has a default (restore with TensorOptionsKind).
THEOREM TypeCorrect == Spec => []TypeOK
  <1>1. IInv => TypeOK
    <2> SUFFICES ASSUME IInv PROVE TypeOK OBVIOUS
    <2>1. options \in Options BY DEF IInv
    <2>2. Len(saved) \in {0, 1, 6}
      <3>1. CASE saved = <<>> BY <3>1
      <3>2. CASE saved = Positions(source.value) BY <3>2 DEF Positions
      <3>3. CASE saved = << <<"Tensor", source.value>> >> BY <3>3
      <3> QED BY <3>1, <3>2, <3>3 DEF IInv, SavedIsSource
    <2>3. ASSUME restored.kind = "options"
          PROVE  /\ restored.value.dtype \in Dtypes
                 /\ restored.value.device \in Devices
                 /\ restored.value.layout \in Layouts
      <3>1. restored.value = WithDefaults(source.value) /\ source.value \in Options
        BY <2>3 DEF IInv, RestoredIsSource
      <3> QED BY <3>1, GetterFacts DEF WithDefaults
    <2> QED BY <2>1, <2>2, <2>3 DEF TypeOK, Options
  <1> QED BY <1>1, Invariance, PTL

\* Options that were saved come back and compare equal, whatever was set
\* since (check_tensor_options_equal).
THEOREM OptionsComeBack == Spec => []OptionsRestored
  <1>1. IInv => OptionsRestored
    <2> SUFFICES ASSUME IInv PROVE OptionsRestored OBVIOUS
    <2>1. restored.kind # "no options" BY DEF IInv, RestoredIsSource
    <2>2. ASSUME restored.kind = "options"
          PROVE  LET lhs == source.value  rhs == restored.value
                 IN  /\ source.kind = "options"
                     /\ Dtype(lhs) = Dtype(rhs) /\ Device(lhs) = Device(rhs)
                     /\ Layout(lhs) = Layout(rhs)
                     /\ \A f \in {"memory_format", "requires_grad", "pinned_memory"} :
                          lhs[f] = rhs[f]
      <3> DEFINE lhs == source.value
                 rhs == restored.value
      <3>1. rhs = WithDefaults(lhs) /\ lhs \in Options /\ source.kind = "options"
        BY <2>2 DEF IInv, RestoredIsSource
      <3> HIDE DEF lhs, rhs
      <3>2. /\ rhs.dtype = Dtype(lhs) /\ rhs.device = Device(lhs)
            /\ rhs.layout = Layout(lhs)
        BY <3>1 DEF WithDefaults
      <3>3. /\ Dtype(rhs) = Dtype(lhs) /\ Device(rhs) = Device(lhs)
            /\ Layout(rhs) = Layout(lhs)
        <4>1. /\ Dtype(rhs) = rhs.dtype /\ Device(rhs) = rhs.device
              /\ Layout(rhs) = rhs.layout
          <5>1. rhs.dtype # Unset /\ rhs.device # Unset /\ rhs.layout # Unset
            BY <3>1, <3>2, GetterFacts
          <5> QED BY <5>1 DEF Dtype, Device, Layout
        <4> QED BY <4>1, <3>2
      <3>4. \A f \in {"memory_format", "requires_grad", "pinned_memory"} : lhs[f] = rhs[f]
        BY <3>1 DEF WithDefaults
      <3> QED BY <3>1, <3>3, <3>4 DEF lhs, rhs
    <2> QED BY <2>1, <2>2 DEF OptionsRestored
  <1> QED BY <1>1, Invariance, PTL

\* What is restored as a tensor is the tensor that was saved.
THEOREM TensorsComeBack == Spec => []TensorsChecked
  <1>1. IInv => TensorsChecked BY DEF IInv, RestoredIsSource, TensorsChecked
  <1> QED BY <1>1, Invariance, PTL
============================================================================
