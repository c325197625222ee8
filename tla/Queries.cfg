SPECIFICATION Spec
CONSTANTS
    CompletionLimit = 2
    MaxChanges = 1
    Objects <- MCObjects
    Clusters <- MCClusters
    Queries <- MCQueries
INVARIANTS
    ListExact
    DescribedTogether
    SuggestionsUsable
