SPECIFICATION Spec
CONSTANTS
    Half = 8
    CommandLines <- MCLines
    Profiles <- MCProfiles
    BundleOf <- MCBundles
    TemplatesOf <- MCTemplates
INVARIANTS
    Findable
    ContainersServed
    
    FillsTheGaps
