------------------------------ MODULE MCFactory ------------------------------
EXTENDS Factory

Started == {PlanFlow, BuildFlow, ScoutFlow, PromptFlow("document"), QualityFlow, DocumentFlow, BuildTestFlow,
            BuildReviewFlow, PlanBuildFlow, PlanBuildTestFlow, SimpleSdlcFlow}
=============================================================================
