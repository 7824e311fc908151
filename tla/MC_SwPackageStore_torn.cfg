SPECIFICATION SerialSpec
CONSTANTS
  site1 = site1
  site2 = site2
  core = core
  lib = lib
  bad = bad
  torn = torn
  NoCap = NoCap
  NoIndex = NoIndex
  Caps = {site1, site2, core, lib}
  Tampered = {bad}
  Broken = {torn}
  Guids = {"g-core", "g-lib"}
  Bundles <- MCBundles
  MaxDeps = 2
  Slots = 1
  Faults = {"stop"}
INVARIANTS GuidsBound
