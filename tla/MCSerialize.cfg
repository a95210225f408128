SPECIFICATION Spec
CONSTANTS
  cpu = cpu
  cuda = cuda
  t1 = t1
  t2 = t2
  Unset = Unset
  Dtypes <- MCDtypes
  Layouts <- MCLayouts
  Formats <- MCFormats
  Devices <- MCDevices
  Tensors <- MCTensors
  DefaultDtype = 6
  DefaultLayout = 0
  DefaultDevice = cpu
INVARIANTS
  TypeOK
  OptionsRestored
  TensorsChecked
