\* Three tokens in pages of four: neither divides the other.  Two latent tokens in
\* a block of three, one latent layer and two proposal layers.  The bound MaxRound
\* ends the latent part.
SPECIFICATION ServeSpec
CONSTANTS
    Block = 3
    PageSize = 4
    MaxLength = 12
    num_latent_tokens = 2
    proposal_size = 3
    num_latent_layers = 1
    num_proposal_layers = 2
    RowLength = 8
    MaxRound = 4
INVARIANTS
    AlwaysInReserve
    AttendsAsTrained
CHECK_DEADLOCK FALSE
