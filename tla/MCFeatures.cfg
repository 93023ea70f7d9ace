\* Arrays of peripherals with a feature for each of their elements.
CONSTANTS
  Devices <- MCDevices
  Configs <- MCConfigs
SPECIFICATION Spec
INVARIANT
  FeaturesIndependent
