CONSTANTS
    Images = {i1, i2}
    MaxSize = 2
    None = None
    MaxEvents = 1
SPECIFICATION FairSpec
INVARIANT BootsWhatIsThere
